---- MODULE Spec2Model ----
(***************************************************************************)
(* A model of cyclescope-secular: the capture job status tracked by the    *)
(* HTTP server, the POST /analyze pipeline with its PostgreSQL store, the  *)
(* OpenAI assistant client (upload, poll, parse, cleanup) and the mapping  *)
(* of a three-layer analysis onto the flat secular_analysis row.           *)
(*                                                                         *)
(* JavaScript values are tagged records, so that a number, an array, null  *)
(* and undefined stay distinct values as they are in the program.          *)
(* A calendar date (the YYYY-MM-DD partition key) is its day number.       *)
(***************************************************************************)
EXTENDS Integers, Sequences, FiniteSets, TLC

VARIABLES
  \* ---- HTTP server: background capture job (index.js)
  downloadStatus,   \* the module-level downloadStatus object
  captures,         \* downloadStockChart calls in flight: [id, kind, date]
  nextCapture,      \* number of captures started so far, plus one
  files,            \* the data directory: date -> [original, annotated] bytes (0: absent)
  today,            \* the day getCurrentDate() returns
  now,              \* the clock new Date() / CURRENT_TIMESTAMP reads
  lastResponse,     \* the last HTTP response written: [endpoint, status]
  reqTick,          \* flips every time a request handler runs its first segment
  \* ---- Database (secular_analysis table)
  store,            \* the rows of secular_analysis
  nextId,           \* the SERIAL sequence behind id
  lastSave,         \* what the last saveAnalysis call did
  \* ---- POST /analyze requests in flight
  reqs,             \* request slot -> the handler's position and locals
  \* ---- OpenAIAssistant.analyze
  apc,              \* position inside analyze
  fileId,           \* the local fileId
  remoteFiles,      \* files held by the remote service
  delCalls,         \* client.files.del calls issued
  delFailed,        \* whether a client.files.del call threw
  run,              \* the last run object observed: [status]
  elapsed,          \* Date.now() - startTime at the last reading of the clock
  polls,            \* runs.retrieve calls made
  pending,          \* the outcome the try block ended with
  outcome,          \* what analyze returned or threw
  reply,            \* the assistant reply the remote service holds for the thread
  \* ---- Database.mapAnalysisToRow applied to one input
  mapIn,
  mapOut,
  \* ---- downloadChartWithRetry / downloadChartWithLoginAndRetry, one call
  retry,            \* the wrapper's position, locals and history
  \* ---- OpenAIAssistant.normalizeKeys applied to one input
  norm,             \* [data, normalized]
  \* ---- one execution of a capture function
  cap,              \* its position, the browser, the screenshot, the file written
  \* ---- GeminiAnnotator.annotateChart, one call
  ann,              \* its position, the response, the file written
  \* ---- GET /analysis/latest, /latest-chart, /annotated-chart, POST /download-file
  http,             \* the request in flight and the response written
  zone,             \* the process's time zone: the sign of its offset from UTC
  \* ---- storage.cleanupOldDirs, one pass
  dirs,             \* the entries of the data directory
  cleanup           \* the pass's position and locals

jobVars     == <<downloadStatus, captures, nextCapture>>
envVars     == <<files, today, now, lastResponse, reqTick>>
storeVars   == <<store, nextId, lastSave>>
analyzeVars == <<apc, fileId, remoteFiles, delCalls, delFailed, run, elapsed,
                 polls, pending, outcome, reply>>
mapVars     == <<mapIn, mapOut>>
retryVars   == <<retry>>
normVars    == <<norm>>
captureVars == <<cap, ann>>
serveVars   == <<http, zone>>
cleanupVars == <<dirs, cleanup>>
coreVars == <<jobVars, envVars, storeVars, reqs, analyzeVars, mapVars, retryVars, normVars>>
vars == <<coreVars, captureVars, serveVars, cleanupVars>>

(***************************************************************************)
(* Bounds of the model.                                                    *)
(***************************************************************************)
MaxCaptures == 3      \* captures started in one behaviour
MaxClock    == 2      \* clock readings 0..MaxClock
MaxDay      == 2      \* days 1..MaxDay
MaxShot     == 2      \* distinct screenshot contents 1..MaxShot
MaxScenarios == 5     \* length of the scenarios array of a payload
MaxSaves    == 3      \* upsert statements executed in one behaviour
MaxRequests == 2      \* POST /analyze requests served in one behaviour
MaxRetries  == 4      \* maxRetries arguments 1..MaxRetries of the retry wrappers
MaxButtons  == 2      \* the elements one selector matches
MaxParts    == 3      \* the parts of one response
MaxHandled  == 1      \* POST /analyze requests served beside the other handlers
RetentionDays == 1    \* config.storage.retentionDays, 30 unless RETENTION_DAYS is set

Days == 1..MaxDay

(***************************************************************************)
(* JavaScript values.                                                      *)
(***************************************************************************)
Undefined == [t |-> "undefined"]
Null      == [t |-> "null"]
Bool(b)   == [t |-> "boolean", v |-> b]
Num(n)    == [t |-> "number", v |-> n]
Str(s)    == [t |-> "string", v |-> s]
Arr(s)    == [t |-> "array", v |-> s]
Obj(r)    == [t |-> "object", v |-> r]
\* the YYYY-MM-DD string of day d
DateStr(d) == [t |-> "date", v |-> d]
\* an ISO timestamp read from the clock
Time(n)   == [t |-> "time", v |-> n]
\* `${dataDir}/${date}/${name}`
Path(d, name) == [t |-> "path", date |-> d, file |-> name]

\* ToBoolean
Truthy(x) ==
  CASE x.t = "undefined" -> FALSE
    [] x.t = "null"      -> FALSE
    [] x.t = "boolean"   -> x.v
    [] x.t = "number"    -> x.v # 0
    [] x.t = "string"    -> x.v # ""
    [] OTHER             -> TRUE

\* x == null || x === undefined
Nullish(x) == x.t \in {"undefined", "null"}

(***************************************************************************)
(* The HTTP server's capture job (index.js).                               *)
(***************************************************************************)
CaptureErrors == {"page.goto: Timeout 60000ms exceeded", "browser has been closed"}

InitialStatus ==
  [isRunning     |-> FALSE,
   lastStartTime |-> Null,
   lastEndTime   |-> Null,
   lastSuccess   |-> Null,
   lastError     |-> Null,
   lastFilePath  |-> Null]

NoFiles == [d \in Days |-> [original |-> 0, annotated |-> 0]]

InitServer ==
  /\ downloadStatus = InitialStatus
  /\ captures = {}
  /\ nextCapture = 1
  /\ files = NoFiles
  /\ today = 1
  /\ now = 0
  /\ lastResponse = [endpoint |-> "none", status |-> 0]
  /\ reqTick = 0

\* res.writeHead(status) ... res.end(...)
Respond(endpoint, status) ==
  lastResponse' = [endpoint |-> endpoint, status |-> status]

\* a request handler is entered
Received == reqTick' = 1 - reqTick

\* A faulty variant of StartBackground: lastError is not reset.
StartBackgroundKeepsError(date) ==
  /\ downloadStatus' = [downloadStatus EXCEPT
                          !.isRunning = TRUE,
                          !.lastStartTime = Time(now)]
  /\ captures' = captures \cup {[id |-> nextCapture, kind |-> "background", date |-> date, attempts |-> 1]}
  /\ nextCapture' = nextCapture + 1

\* runDownloadInBackground up to its first await: the status is marked running
\* and downloadStockChart(date) is called
StartBackground(date) ==
  /\ downloadStatus' = [downloadStatus EXCEPT
                          !.isRunning = TRUE,
                          !.lastStartTime = Time(now),
                          !.lastError = Null]
  /\ captures' = captures \cup {[id |-> nextCapture, kind |-> "background", date |-> date, attempts |-> 1]}
  /\ nextCapture' = nextCapture + 1

\* A faulty variant of PostDownload: the isRunning check is missing.
PostDownloadUnguarded ==
  /\ nextCapture <= MaxCaptures
  /\ Received
  /\ StartBackground(today)
  /\ Respond("POST /download", 202)
  /\ UNCHANGED <<files, today, now>>

\* POST /download
PostDownload ==
  /\ Received
  /\ IF downloadStatus.isRunning
     THEN /\ Respond("POST /download", 409)
          /\ UNCHANGED jobVars
     ELSE /\ nextCapture <= MaxCaptures
          /\ StartBackground(today)
          /\ Respond("POST /download", 202)
  /\ UNCHANGED <<files, today, now>>

\* downloadStockChart ends by saveFile('original_chart.png', screenshot, date)
SaveOriginal(date, shot) ==
  files' = [files EXCEPT ![date].original = shot]

\* runDownloadInBackground after the await, downloadStockChart having returned
BackgroundSucceeds(c, shot) ==
  /\ c \in captures /\ c.kind = "background"
  /\ SaveOriginal(c.date, shot)
  /\ downloadStatus' = [downloadStatus EXCEPT
                          !.isRunning = FALSE,
                          !.lastEndTime = Time(now),
                          !.lastSuccess = Bool(TRUE),
                          !.lastFilePath = Path(c.date, "original_chart.png")]
  /\ captures' = captures \ {c}
  /\ UNCHANGED <<nextCapture, today, now, lastResponse, reqTick>>

\* A faulty variant of BackgroundFails: the catch also resets lastFilePath.
BackgroundFailsClearsPath(c, err) ==
  /\ c \in captures /\ c.kind = "background"
  /\ downloadStatus' = [downloadStatus EXCEPT
                          !.isRunning = FALSE,
                          !.lastEndTime = Time(now),
                          !.lastSuccess = Bool(FALSE),
                          !.lastError = Str(err),
                          !.lastFilePath = Null]
  /\ captures' = captures \ {c}
  /\ UNCHANGED <<nextCapture, files, today, now, lastResponse, reqTick>>

\* A faulty variant of BackgroundFails: the catch leaves isRunning as it is.
BackgroundFailsStaysRunning(c, err) ==
  /\ c \in captures /\ c.kind = "background"
  /\ downloadStatus' = [downloadStatus EXCEPT
                          !.lastEndTime = Time(now),
                          !.lastSuccess = Bool(FALSE),
                          !.lastError = Str(err)]
  /\ captures' = captures \ {c}
  /\ UNCHANGED <<nextCapture, files, today, now, lastResponse, reqTick>>

\* A faulty variant of BackgroundFails: the catch does not record error.message.
BackgroundFailsLosesMessage(c, err) ==
  /\ c \in captures /\ c.kind = "background"
  /\ downloadStatus' = [downloadStatus EXCEPT
                          !.isRunning = FALSE,
                          !.lastEndTime = Time(now),
                          !.lastSuccess = Bool(FALSE)]
  /\ captures' = captures \ {c}
  /\ UNCHANGED <<nextCapture, files, today, now, lastResponse, reqTick>>

\* runDownloadInBackground's catch, downloadStockChart having thrown
BackgroundFails(c, err) ==
  /\ c \in captures /\ c.kind = "background"
  /\ downloadStatus' = [downloadStatus EXCEPT
                          !.isRunning = FALSE,
                          !.lastEndTime = Time(now),
                          !.lastSuccess = Bool(FALSE),
                          !.lastError = Str(err)]
  /\ captures' = captures \ {c}
  /\ UNCHANGED <<nextCapture, files, today, now, lastResponse, reqTick>>

\* POST /download-file up to its await
PostDownloadFile ==
  /\ Received
  /\ IF downloadStatus.isRunning
     THEN /\ Respond("POST /download-file", 409)
          /\ UNCHANGED jobVars
     ELSE /\ nextCapture <= MaxCaptures
          /\ captures' = captures \cup {[id |-> nextCapture, kind |-> "file", date |-> today, attempts |-> 1]}
          /\ nextCapture' = nextCapture + 1
          /\ UNCHANGED <<downloadStatus, lastResponse>>
  /\ UNCHANGED <<files, today, now>>

\* POST /download-file after the await: the PNG is read and sent
DownloadFileSucceeds(c, shot) ==
  /\ c \in captures /\ c.kind = "file"
  /\ SaveOriginal(c.date, shot)
  /\ captures' = captures \ {c}
  /\ Respond("POST /download-file", 200)
  /\ UNCHANGED <<downloadStatus, nextCapture, today, now, reqTick>>

\* A faulty variant of DownloadFileFails: the catch records the error in
\* downloadStatus.
DownloadFileFailsWritesStatus(c) ==
  /\ c \in captures /\ c.kind = "file"
  /\ captures' = captures \ {c}
  /\ downloadStatus' = [downloadStatus EXCEPT !.lastSuccess = Bool(FALSE),
                                               !.lastError = Str("browser has been closed")]
  /\ Respond("POST /download-file", 500)
  /\ UNCHANGED <<nextCapture, files, today, now, reqTick>>

\* POST /download-file's catch
DownloadFileFails(c) ==
  /\ c \in captures /\ c.kind = "file"
  /\ captures' = captures \ {c}
  /\ Respond("POST /download-file", 500)
  /\ UNCHANGED <<downloadStatus, nextCapture, files, today, now, reqTick>>

\* GET /health and GET /
GetHealth ==
  /\ Received
  /\ Respond("GET /health", 200)
  /\ UNCHANGED <<jobVars, files, today, now>>

\* GET /download-status
GetDownloadStatus ==
  /\ Received
  /\ Respond("GET /download-status", 200)
  /\ UNCHANGED <<jobVars, files, today, now>>

\* time passes
Tick ==
  /\ now < MaxClock
  /\ now' = now + 1
  /\ UNCHANGED <<jobVars, files, today, lastResponse, reqTick>>

\* midnight passes
NewDay ==
  /\ today < MaxDay
  /\ today' = today + 1
  /\ UNCHANGED <<jobVars, files, now, lastResponse, reqTick>>

(***************************************************************************)
(* Database.mapAnalysisToRow.                                              *)
(* A JavaScript object is Obj(r) with r a record; a property the object    *)
(* lacks reads as undefined.  A probability p is written Num(100 * p).     *)
(***************************************************************************)
\* o?.[f] for a property name f
Get(o, f) ==
  IF Nullish(o) THEN Undefined
  ELSE IF o.t = "object" /\ f \in DOMAIN o.v THEN o.v[f]
  ELSE Undefined

\* a?.[i] for an index i (from 0)
Index(a, i) ==
  IF Nullish(a) THEN Undefined
  ELSE IF a.t = "array" /\ i >= 0 /\ i < Len(a.v) THEN a.v[i + 1]
  ELSE Undefined

\* a || b
OrElse(a, b) == IF Truthy(a) THEN a ELSE b

\* A faulty variant of getScenario: the sub-field test is "subfield !== null".
getScenarioBySubfield(scenarios, index, field, subfield) ==
  LET scenario == Index(scenarios, index) IN
  IF ~Truthy(scenario) THEN Null
  ELSE IF subfield # Null THEN Index(Get(scenario, field), subfield.v)
  ELSE Get(scenario, field)

\* A faulty variant of getScenario: a missing scenario is not tested for.
getScenarioUnchecked(scenarios, index, field, subfield) ==
  LET scenario == Index(scenarios, index) IN
  IF Truthy(subfield) THEN Index(Get(scenario, field), subfield.v)
  ELSE Get(scenario, field)

\* A faulty variant of getScenario: an index past the end reads the last scenario.
getScenarioClamped(scenarios, index, field, subfield) ==
  LET last == IF scenarios.t = "array" THEN Len(scenarios.v) - 1 ELSE index
      scenario == Index(scenarios, IF index > last THEN last ELSE index)
  IN
  IF ~Truthy(scenario) THEN Null
  ELSE IF Truthy(subfield) THEN Index(Get(scenario, field), subfield.v)
  ELSE Get(scenario, field)

\* const getScenario = (index, field, subfield = null) => ...
getScenario(scenarios, index, field, subfield) ==
  LET scenario == Index(scenarios, index) IN
  IF ~Truthy(scenario) THEN Null
  ELSE IF Truthy(subfield) THEN Index(Get(scenario, field), subfield.v)
  ELSE Get(scenario, field)

\* the nine scenarioN_* entries of the row, N = index + 1
ScenarioColumns(scenarios, index) ==
  [id                |-> getScenario(scenarios, index, "scenario_id", Null),
   name              |-> getScenario(scenarios, index, "name", Null),
   probability       |-> getScenario(scenarios, index, "probability", Null),
   path_summary      |-> getScenario(scenarios, index, "path_summary", Null),
   technical_logic   |-> getScenario(scenarios, index, "technical_logic", Null),
   target_zone       |-> getScenario(scenarios, index, "target_zone_description", Null),
   expected_move_min |-> getScenario(scenarios, index, "expected_move_percent", Num(0)),
   expected_move_max |-> getScenario(scenarios, index, "expected_move_percent", Num(1)),
   risk_profile      |-> getScenario(scenarios, index, "risk_profile", Null)]

\* the row object mapAnalysisToRow returns; scenario[N] is the group scenarioN_*
mapAnalysisToRow(analysis) ==
  LET layer1 == analysis.layer1
      layer2 == analysis.layer2
      layer3 == analysis.layer3
      sa == Get(layer2, "scenario_analysis")
      scenarios == OrElse(Get(sa, "scenarios"), Arr(<<>>))
  IN
  [asof_date               |-> Get(layer1, "asof_date"),
   secular_trend           |-> Get(layer1, "secular_trend"),
   secular_regime_status   |-> Get(layer1, "secular_regime_status"),
   channel_position        |-> Get(layer1, "channel_position"),
   recent_behavior_summary |-> Get(layer1, "recent_behavior_summary"),
   interpretation          |-> Get(layer1, "interpretation"),
   risk_bias               |-> Get(layer1, "risk_bias"),
   summary_signal          |-> Get(layer1, "summary_signal"),
   dominant_dynamics       |-> Get(sa, "dominant_dynamics"),
   overall_bias            |-> Get(sa, "overall_bias"),
   secular_summary         |-> Get(sa, "secular_summary"),
   scenario                |-> [n \in 1..4 |-> ScenarioColumns(scenarios, n - 1)],
   scenario_summary        |-> [n \in 1..4 |-> Index(Get(layer3, "scenario_summary"), n - 1)],
   primary_message         |-> Get(layer3, "primary_message"),
   original_chart_url      |-> OrElse(analysis.original_chart_url, Null),
   annotated_chart_url     |-> OrElse(analysis.annotated_chart_url, Null)]

(***************************************************************************)
(* Analysis payloads the remote assistant may return.                      *)
(***************************************************************************)
\* one entry of layer2.scenario_analysis.scenarios
Scenario(id, name, probability, move) ==
  Obj([scenario_id             |-> Str(id),
       name                    |-> Str(name),
       probability             |-> Num(probability),
       path_summary            |-> Str("path"),
       technical_logic         |-> Str("logic"),
       target_zone_description |-> Str("zone"),
       expected_move_percent   |-> move,
       risk_profile            |-> Str("risk")])

DownsideScenario == Scenario("1", "Midline Reversion", 50, Arr(<<Num(-10), Num(-18)>>))
UpsideScenario   == Scenario("2", "Breakout", 30, Arr(<<Num(5), Num(15)>>))
\* a scenario the assistant returned without expected_move_percent
UnboundedScenario == Scenario("3", "Range", 12, Undefined)

ScenarioPool == {DownsideScenario, UpsideScenario, UnboundedScenario}

\* the sequences over S of length 0..n
RECURSIVE SeqsUpTo(_, _)
SeqsUpTo(S, n) ==
  IF n = 0 THEN {<<>>}
  ELSE LET shorter == SeqsUpTo(S, n - 1) IN
       shorter \cup {Append(q, x) : q \in {r \in shorter : Len(r) = n - 1}, x \in S}

Layer1(date, trend) == Obj([asof_date |-> date, secular_trend |-> Str(trend)])

Layer2(scenarios) ==
  Obj([scenario_analysis |->
         Obj([dominant_dynamics |-> Str("dynamics"),
              overall_bias      |-> Str("bias"),
              secular_summary   |-> Str("summary"),
              scenarios         |-> scenarios])])

Layer3(n) ==
  Obj([scenario_summary |-> Arr([i \in 1..n |-> Str("point")]),
       primary_message  |-> Str("message")])

Analysis(l1, l2, l3) ==
  [layer1 |-> l1, layer2 |-> l2, layer3 |-> l3,
   original_chart_url |-> Undefined, annotated_chart_url |-> Undefined]

\* the inputs mapAnalysisToRow is applied to
MapInputs ==
  {Analysis(l1, l2, l3) :
     l1 \in {Undefined, Layer1(Undefined, "up"), Layer1(DateStr(1), "down")},
     l2 \in {Undefined, Obj([scenario_analysis |-> Undefined]), Layer2(Undefined)}
            \cup {Layer2(Arr(q)) : q \in SeqsUpTo(ScenarioPool, MaxScenarios)},
     l3 \in {Undefined, Layer3(4)}}

(***************************************************************************)
(* The secular_analysis table and Database.saveAnalysis.                   *)
(* A stored row is [id, asof_date, data, created_at, updated_at], data     *)
(* holding the 53 data columns in the shape of mapAnalysisToRow's result.  *)
(***************************************************************************)
\* a query parameter as the driver sends it: undefined and null are NULL
ToSql(v) == IF Nullish(v) THEN Null ELSE v

\* a DECIMAL column takes NULL or a number; an array parameter is sent as an
\* array literal, which the column rejects
DecimalAccepts(v) == Nullish(v) \/ v.t = "number"

\* asof_date DATE NOT NULL
DateAccepts(v) == v.t = "date"

\* the statement's parameters pass the column types of CREATE TABLE
RowAccepted(row) ==
  /\ DateAccepts(row.asof_date)
  /\ \A n \in 1..4 :
       /\ DecimalAccepts(row.scenario[n].probability)
       /\ DecimalAccepts(row.scenario[n].expected_move_min)
       /\ DecimalAccepts(row.scenario[n].expected_move_max)

\* the values of the data columns, $2..$54
SqlData(row) ==
  [secular_trend           |-> ToSql(row.secular_trend),
   secular_regime_status   |-> ToSql(row.secular_regime_status),
   channel_position        |-> ToSql(row.channel_position),
   recent_behavior_summary |-> ToSql(row.recent_behavior_summary),
   interpretation          |-> ToSql(row.interpretation),
   risk_bias               |-> ToSql(row.risk_bias),
   summary_signal          |-> ToSql(row.summary_signal),
   dominant_dynamics       |-> ToSql(row.dominant_dynamics),
   overall_bias            |-> ToSql(row.overall_bias),
   secular_summary         |-> ToSql(row.secular_summary),
   scenario                |-> [n \in 1..4 |->
                                 [f \in DOMAIN row.scenario[n] |-> ToSql(row.scenario[n][f])]],
   scenario_summary        |-> [n \in 1..4 |-> ToSql(row.scenario_summary[n])],
   primary_message         |-> ToSql(row.primary_message),
   original_chart_url      |-> ToSql(row.original_chart_url),
   annotated_chart_url     |-> ToSql(row.annotated_chart_url)]

RowsFor(rows, d) == {r \in rows : r.asof_date = d}

\* the row INSERT proposes: id from the sequence, both timestamps defaulted
Inserted(row) ==
  [id         |-> nextId,
   asof_date  |-> row.asof_date.v,
   data       |-> SqlData(row),
   created_at |-> Time(now),
   updated_at |-> Time(now)]

\* A faulty variant of UpsertStore: no ON CONFLICT clause and no UNIQUE constraint.
UpsertStoreInsertOnly(row) == store \cup {Inserted(row)}

\* A faulty variant of UpsertStore: DO UPDATE SET also resets created_at.
UpsertStoreResetCreated(row) ==
  LET old == RowsFor(store, row.asof_date.v) IN
  IF old = {} THEN store \cup {Inserted(row)}
  ELSE (store \ old) \cup
       {[r EXCEPT !.data = SqlData(row), !.created_at = Time(now),
                  !.updated_at = Time(now)] : r \in old}

\* A faulty variant of UpsertStore: DO UPDATE SET leaves annotated_chart_url out.
UpsertStoreKeepAnnotated(row) ==
  LET old == RowsFor(store, row.asof_date.v) IN
  IF old = {} THEN store \cup {Inserted(row)}
  ELSE (store \ old) \cup
       {[r EXCEPT !.data = [SqlData(row) EXCEPT
                              !.annotated_chart_url = r.data.annotated_chart_url],
                  !.updated_at = Time(now)] : r \in old}

\* the table after INSERT ... ON CONFLICT (asof_date) DO UPDATE SET ...
UpsertStore(row) ==
  LET old == RowsFor(store, row.asof_date.v) IN
  IF old = {} THEN store \cup {Inserted(row)}
  ELSE (store \ old) \cup
       {[r EXCEPT !.data = SqlData(row), !.updated_at = Time(now)] : r \in old}

\* the statement executes: the sequence advances, the table changes
ExecuteUpsert(row) ==
  /\ store' = UpsertStore(row)
  /\ nextId' = nextId + 1

\* RETURNING *
Returned(row) == CHOOSE r \in RowsFor(store', row.asof_date.v) : TRUE

\* Database.getAnalysisByDate(date): result.rows[0] || null
getAnalysisByDate(d) ==
  IF RowsFor(store, d) = {} THEN Null ELSE CHOOSE r \in RowsFor(store, d) : TRUE

\* A faulty variant of SaveAnalysis: a statement the database rejects has
\* written its row before the error is thrown.
SaveAnalysisWritesThenThrows(analysis, dbUp) ==
  LET row == mapAnalysisToRow(analysis)
      call == [call |-> 1 - lastSave.call, analysis |-> analysis]
  IN
  IF dbUp
  THEN /\ nextId <= MaxSaves
       /\ ExecuteUpsert(row)
       /\ lastSave' = IF RowAccepted(row)
                      THEN [result |-> "saved", call |-> call.call,
                            analysis |-> analysis, row |-> Returned(row)]
                      ELSE [result |-> "rejected", call |-> call.call,
                            analysis |-> analysis]
  ELSE /\ UNCHANGED <<store, nextId>>
       /\ lastSave' = [result |-> "unreachable",
                       call |-> call.call, analysis |-> analysis]

\* Database.saveAnalysis(analysis), the database reachable or not; lastSave
\* notes the call: its argument and what it returned or why it threw
SaveAnalysis(analysis, dbUp) ==
  LET row == mapAnalysisToRow(analysis)
      call == [call |-> 1 - lastSave.call, analysis |-> analysis]
  IN
  IF dbUp /\ RowAccepted(row)
  THEN /\ nextId <= MaxSaves
       /\ ExecuteUpsert(row)
       /\ lastSave' = [result |-> "saved", call |-> call.call,
                       analysis |-> analysis, row |-> Returned(row)]
  ELSE /\ UNCHANGED <<store, nextId>>
       /\ lastSave' = [result |-> IF dbUp THEN "rejected" ELSE "unreachable",
                       call |-> call.call, analysis |-> analysis]

\* an analysis as POST /analyze hands it over, its chart references attached
WithCharts(analysis, original, annotated) ==
  [analysis EXCEPT !.original_chart_url = original, !.annotated_chart_url = annotated]

\* five scenarios, none with a range
FiveScenarios ==
  [i \in 1..5 |-> Scenario(<<"1", "2", "3", "4", "5">>[i], "Range", 10 * i, Undefined)]

\* the four scenarios of the documented example, probabilities 0.50, 0.30,
\* 0.12, 0.08 and their ranges
FourScenarios ==
  <<Scenario("1", "Midline Reversion", 50, Arr(<<Num(-10), Num(-18)>>)),
    Scenario("2", "Sideways", 30, Arr(<<Num(-5), Num(5)>>)),
    Scenario("3", "Breakout", 12, Arr(<<Num(5), Num(15)>>)),
    Scenario("4", "Breakdown", 8, Arr(<<Num(-25), Num(-35)>>))>>

\* the payloads saveAnalysis is called with: for every date two that differ in
\* every layer, one without asof_date, one whose scenario carries a range, one
\* with five scenarios, one with the four scenarios of the documented example
SavePayloads ==
  {WithCharts(Analysis(Layer1(DateStr(1), "up"), Layer2(Arr(FiveScenarios)), Layer3(4)),
              Str("original_chart.png"), Null),
   WithCharts(Analysis(Layer1(DateStr(2), "up"), Layer2(Arr(FourScenarios)), Layer3(4)),
              Str("original_chart.png"), Null)}
  \cup
  {WithCharts(Analysis(Layer1(DateStr(d), "up"), Layer2(Undefined), Layer3(4)),
              Str("original_chart.png"), Str("annotated_chart.png")) : d \in Days}
  \cup
  {WithCharts(Analysis(Layer1(DateStr(d), "down"), Layer2(Arr(<<UnboundedScenario>>)), Layer3(2)),
              Str("original_chart.png"), Null) : d \in Days}
  \cup
  {WithCharts(Analysis(Layer1(Undefined, "up"), Layer2(Undefined), Layer3(4)),
              Str("original_chart.png"), Null),
   WithCharts(Analysis(Layer1(DateStr(1), "up"), Layer2(Arr(<<DownsideScenario>>)), Layer3(4)),
              Str("original_chart.png"), Null)}

(***************************************************************************)
(* POST /analyze (test-download-with-login.js).  The handler runs up to    *)
(* each await in one step; requests overlap at the awaits.                 *)
(***************************************************************************)
IdleRequest ==
  [pc |-> "idle", date |-> 0, analysis |-> Undefined, annotated |-> FALSE,
   writes |-> 0, status |-> 0, error |-> Null, savedRecord |-> Null]

\* what OpenAIAssistant.analyze may resolve to: the layers the remote
\* assistant wrote, its asof_date any day, its scenarios with or without a range
AssistantPayloads ==
  {Analysis(Layer1(DateStr(d), "up"), Layer2(Undefined), Layer3(4)) : d \in Days}
  \cup
  {Analysis(Layer1(DateStr(1), "down"), Layer2(Arr(<<DownsideScenario>>)), Layer3(2))}

\* A faulty variant of AnalyzeReceived: the chart is not looked for.
AnalyzeReceivedUnchecked(r) ==
  /\ reqs[r].pc = "idle"
  /\ Received
  /\ reqs' = [reqs EXCEPT ![r].pc = "analyzing", ![r].date = today]
  /\ UNCHANGED <<files, today, now, lastResponse, storeVars>>

\* the handler up to `await assistant.analyze(chartPath, date)`, or its 404
AnalyzeReceived(r) ==
  /\ reqs[r].pc = "idle"
  /\ Received
  /\ IF files[today].original = 0
     THEN /\ Respond("POST /analyze", 404)
          /\ reqs' = [reqs EXCEPT ![r].pc = "done", ![r].date = today, ![r].status = 404]
     ELSE /\ reqs' = [reqs EXCEPT ![r].pc = "analyzing", ![r].date = today]
          /\ UNCHANGED lastResponse
  /\ UNCHANGED <<files, today, now, storeVars>>

\* A faulty variant of AnalysisReturns: saveAnalysis is called while the
\* annotation is still to be attempted.
AnalysisReturnsSavesFirst(r, payload) ==
  /\ reqs[r].pc = "analyzing"
  /\ reqs' = [reqs EXCEPT
                ![r].pc = "saving",
                ![r].analysis = [payload EXCEPT
                   !.original_chart_url = Path(reqs[r].date, "original_chart.png")]]
  /\ UNCHANGED <<envVars, storeVars>>

\* assistant.analyze resolves; the chart path is attached and annotateChart called
AnalysisReturns(r, payload) ==
  /\ reqs[r].pc = "analyzing"
  /\ reqs' = [reqs EXCEPT
                ![r].pc = "annotating",
                ![r].analysis = [payload EXCEPT
                   !.original_chart_url = Path(reqs[r].date, "original_chart.png")]]
  /\ UNCHANGED <<envVars, storeVars>>

\* the errors assistant.analyze may reject with
AssistantErrors == {"Assistant run timeout (5 minutes)",
                    "Response missing required layers (layer1, layer2, layer3)"}

\* A faulty variant of AnalysisThrows: the annotation is written all the same.
AnalysisThrowsThenAnnotates(r, err) ==
  /\ reqs[r].pc = "analyzing"
  /\ Respond("POST /analyze", 500)
  /\ files' = [files EXCEPT ![reqs[r].date].annotated = 1]
  /\ reqs' = [reqs EXCEPT ![r].pc = "done", ![r].status = 500,
                          ![r].annotated = TRUE, ![r].error = Str(err)]
  /\ UNCHANGED <<today, now, reqTick, storeVars>>

\* assistant.analyze rejects with err: the handler's catch answers 500 with
\* error.message in the body
AnalysisThrows(r, err) ==
  /\ reqs[r].pc = "analyzing"
  /\ Respond("POST /analyze", 500)
  /\ reqs' = [reqs EXCEPT ![r].pc = "done", ![r].status = 500, ![r].error = Str(err)]
  /\ UNCHANGED <<files, today, now, reqTick, storeVars>>

\* annotateChart wrote annotated_chart.png; saveAnalysis is called
AnnotationSucceeds(r, shot) ==
  /\ reqs[r].pc = "annotating"
  /\ files' = [files EXCEPT ![reqs[r].date].annotated = shot]
  /\ reqs' = [reqs EXCEPT
                ![r].pc = "saving",
                ![r].annotated = TRUE,
                ![r].analysis.annotated_chart_url =
                   Path(reqs[r].date, "annotated_chart.png")]
  /\ UNCHANGED <<today, now, lastResponse, reqTick, storeVars>>

\* annotateChart threw; the inner catch continues without annotation
AnnotationFails(r) ==
  /\ reqs[r].pc = "annotating"
  /\ reqs' = [reqs EXCEPT
                ![r].pc = "saving",
                ![r].analysis.annotated_chart_url = Null]
  /\ UNCHANGED <<envVars, storeVars>>

\* saveAnalysis settles: 200 with the saved record, or the catch's 500
SaveSettles(r, dbUp) ==
  /\ reqs[r].pc = "saving"
  /\ SaveAnalysis(reqs[r].analysis, dbUp)
  /\ IF lastSave'.result = "saved"
     THEN /\ Respond("POST /analyze", 200)
          /\ reqs' = [reqs EXCEPT ![r].pc = "done", ![r].status = 200,
                                  ![r].writes = @ + 1,
                                  ![r].savedRecord = lastSave'.row]
     ELSE /\ Respond("POST /analyze", 500)
          /\ reqs' = [reqs EXCEPT ![r].pc = "done", ![r].status = 500,
                                  ![r].error = Str(lastSave'.result)]
  /\ UNCHANGED <<files, today, now, reqTick>>

\* the clock and the calendar while the handler's requests are served
AnalyzeTick ==
  /\ now < MaxClock
  /\ now' = now + 1
  /\ UNCHANGED <<files, today, lastResponse, reqTick, storeVars, reqs>>

AnalyzeNewDay ==
  /\ today < MaxDay
  /\ today' = today + 1
  /\ UNCHANGED <<files, now, lastResponse, reqTick, storeVars, reqs>>

(***************************************************************************)
(* OpenAIAssistant (openai-assistant.js).  A key of a JSON object is the   *)
(* sequence of its characters; a parsed JSON object is the sequence of its *)
(* entries [key, value] in Object.entries order.                           *)
(***************************************************************************)
POLL_INTERVAL == 2000
MAX_POLL_TIME == 300000

UpperCase == <<"A", "B", "C", "D", "E", "F", "G", "H", "I", "J", "K", "L", "M",
               "N", "O", "P", "Q", "R", "S", "T", "U", "V", "W", "X", "Y", "Z">>
LowerCase == <<"a", "b", "c", "d", "e", "f", "g", "h", "i", "j", "k", "l", "m",
               "n", "o", "p", "q", "r", "s", "t", "u", "v", "w", "x", "y", "z">>

\* String.prototype.toLowerCase, one character
ToLowerCase(c) ==
  IF \E i \in 1..Len(UpperCase) : UpperCase[i] = c
  THEN LowerCase[CHOOSE i \in 1..Len(UpperCase) : UpperCase[i] = c]
  ELSE c

IsSeparator(c) == c \in {" ", "_"}
KeepsCharacter(c) == ~IsSeparator(c)

\* key.replace(/[ _]/g, '')
WithoutSeparators(key) == SelectSeq(key, KeepsCharacter)

\* String.prototype.toLowerCase
ToLowerCaseAll(str) == [i \in 1..Len(str) |-> ToLowerCase(str[i])]

IsUnderscore(c) == c = "_"
KeepsAllButUnderscore(c) == ~IsUnderscore(c)

\* A faulty variant of normalizeKey: the pattern is /_/g.
normalizeKeyUnderscoresOnly(key) ==
  LET kept == SelectSeq(key, KeepsAllButUnderscore)
  IN [i \in 1..Len(kept) |-> ToLowerCase(kept[i])]

\* key.replace(/[ _]/g, '').toLowerCase()
normalizeKey(key) ==
  LET kept == SelectSeq(key, KeepsCharacter)
  IN [i \in 1..Len(kept) |-> ToLowerCase(kept[i])]

JsonObject(entries) == [t |-> "json", v |-> entries]

\* Object.entries(data) of a value that is not null or undefined
ObjectEntries(data) == IF data.t = "json" THEN data.v ELSE <<>>

\* normalizeKeys(data): every entry assigned under its normalized key, in
\* order, a later entry overwriting an earlier one of the same key
normalizeKeys(data) ==
  LET entries == ObjectEntries(data)
      keys == {normalizeKey(entries[i].key) : i \in 1..Len(entries)}
      Last(k) == CHOOSE i \in 1..Len(entries) :
                   /\ normalizeKey(entries[i].key) = k
                   /\ \A j \in (i + 1)..Len(entries) : normalizeKey(entries[j].key) # k
  IN [k \in keys |-> entries[Last(k)].value]

\* normalized[k]
Prop(normalized, k) == IF k \in DOMAIN normalized THEN normalized[k] ELSE Undefined

layer1Key == <<"l", "a", "y", "e", "r", "1">>
layer2Key == <<"l", "a", "y", "e", "r", "2">>
layer3Key == <<"l", "a", "y", "e", "r", "3">>

\* how analyze ends
Resolves(value) == [kind |-> "returned", value |-> value]
Throws(message, detail) == [kind |-> "threw", error |-> message, detail |-> detail]
NotSettled == [kind |-> "none"]

\* A faulty variant of Interpret: the structure of the response is not verified.
InterpretUnverified(rep) ==
  IF rep.kind = "absent" THEN Throws("No assistant response found", Undefined)
  ELSE IF rep.kind = "image" THEN Throws("No text content in assistant response", Undefined)
  ELSE IF ~rep.parses THEN Throws("Failed to parse assistant response", Undefined)
  ELSE IF Nullish(rep.value) THEN Throws("TypeError", Undefined)
  ELSE Resolves(normalizeKeys(rep.value))

\* steps 6 to 8 and the structure check, on what messages.list returned
Interpret(rep) ==
  IF rep.kind = "absent" THEN Throws("No assistant response found", Undefined)
  ELSE IF rep.kind = "image" THEN Throws("No text content in assistant response", Undefined)
  ELSE IF ~rep.parses THEN Throws("Failed to parse assistant response", Undefined)
  ELSE IF Nullish(rep.value) THEN Throws("TypeError", Undefined)
  ELSE LET normalized == normalizeKeys(rep.value) IN
       IF \/ ~Truthy(Prop(normalized, layer1Key))
          \/ ~Truthy(Prop(normalized, layer2Key))
          \/ ~Truthy(Prop(normalized, layer3Key))
       THEN Throws("Response missing required layers (layer1, layer2, layer3)", Undefined)
       ELSE Resolves(normalized)

\* A faulty variant of Finally: the cleanup runs only when the try block returned.
FinallyOnReturnOnly(p) ==
  /\ pending' = p
  /\ IF Truthy(fileId) /\ p.kind = "returned"
     THEN /\ apc' = "deleting"
          /\ delCalls' = delCalls + 1
          /\ UNCHANGED outcome
     ELSE /\ apc' = "done"
          /\ outcome' = p
          /\ UNCHANGED delCalls

\* the try block ends with p; the finally block runs up to `await files.del`
\* or, without an uploaded file, to its end
Finally(p) ==
  /\ pending' = p
  /\ IF Truthy(fileId)
     THEN /\ apc' = "deleting"
          /\ delCalls' = delCalls + 1
          /\ UNCHANGED outcome
     ELSE /\ apc' = "done"
          /\ outcome' = p
          /\ UNCHANGED delCalls

\* the try block goes on to its next await
Continue(pc) ==
  /\ apc' = pc
  /\ UNCHANGED <<pending, outcome, delCalls>>

\* analyze(chartPath, date) up to `await files.create`, or its early throw
AnalyzeCalled(chartExists) ==
  /\ apc = "idle"
  /\ IF chartExists
     THEN /\ apc' = "uploading"
          /\ UNCHANGED outcome
     ELSE /\ apc' = "done"
          /\ outcome' = Throws("Chart file not found", Undefined)
  /\ fileId' = Null
  /\ UNCHANGED <<remoteFiles, delCalls, delFailed, run, elapsed, polls, pending, reply>>

\* step 1: the upload resolves; threads.create is called
UploadSucceeds ==
  /\ apc = "uploading"
  /\ fileId' = Str("file-1")
  /\ remoteFiles' = remoteFiles \cup {Str("file-1")}
  /\ Continue("threading")
  /\ UNCHANGED <<delFailed, run, elapsed, polls, reply>>

\* a call of the remote API rejects at position pc
RemoteCallFails(pc) ==
  /\ apc = pc
  /\ pc \in {"uploading", "threading", "messaging", "starting", "polling", "listing"}
  /\ Finally(Throws("APIError", Str(pc)))
  /\ UNCHANGED <<fileId, remoteFiles, delFailed, run, elapsed, polls, reply>>

\* step 2: the thread is created; messages.create is called
ThreadCreated ==
  /\ apc = "threading"
  /\ Continue("messaging")
  /\ UNCHANGED <<fileId, remoteFiles, delFailed, run, elapsed, polls, reply>>

\* step 3: the message is sent; runs.create is called
MessageSent ==
  /\ apc = "messaging"
  /\ Continue("starting")
  /\ UNCHANGED <<fileId, remoteFiles, delFailed, run, elapsed, polls, reply>>

\* the statuses a run object may carry
RunStatuses == {"queued", "in_progress", "requires_action",
                "completed", "failed", "cancelled", "expired"}

RunObjects ==
  {[status |-> st, last_error |-> Null] : st \in RunStatuses}
  \cup {[status |-> "failed", last_error |-> Obj([message |-> Str("Rate limit exceeded")])]}

\* A faulty variant of PollLoop: the clock is never examined.
PollLoopWithoutClock(r, t) ==
  IF r.status = "completed" THEN Continue("listing")
  ELSE IF r.status = "failed"
  THEN Finally(Throws("Assistant run failed",
                      OrElse(Get(r.last_error, "message"), Str("Unknown error"))))
  ELSE IF r.status = "cancelled" THEN Finally(Throws("Assistant run was cancelled", Undefined))
  ELSE IF r.status = "expired" THEN Finally(Throws("Assistant run expired", Undefined))
  ELSE Continue("polling")

\* A faulty variant of PollLoop: the clock is examined before the loop's
\* condition.
PollLoopClockFirst(r, t) ==
  IF t > MAX_POLL_TIME THEN Finally(Throws("Assistant run timeout (5 minutes)", Undefined))
  ELSE IF r.status = "completed" THEN Continue("listing")
  ELSE IF r.status = "failed"
  THEN Finally(Throws("Assistant run failed",
                      OrElse(Get(r.last_error, "message"), Str("Unknown error"))))
  ELSE IF r.status = "cancelled" THEN Finally(Throws("Assistant run was cancelled", Undefined))
  ELSE IF r.status = "expired" THEN Finally(Throws("Assistant run expired", Undefined))
  ELSE Continue("polling")

\* A faulty variant of PollLoop: the run's status is examined before the clock.
PollLoopStatusFirst(r, t) ==
  IF r.status = "completed" THEN Continue("listing")
  ELSE IF r.status = "failed"
  THEN Finally(Throws("Assistant run failed",
                      OrElse(Get(r.last_error, "message"), Str("Unknown error"))))
  ELSE IF r.status = "cancelled" THEN Finally(Throws("Assistant run was cancelled", Undefined))
  ELSE IF r.status = "expired" THEN Finally(Throws("Assistant run expired", Undefined))
  ELSE IF t > MAX_POLL_TIME THEN Finally(Throws("Assistant run timeout (5 minutes)", Undefined))
  ELSE Continue("polling")

\* step 5, one evaluation of the loop from its condition to the next await,
\* run r just observed, t = Date.now() - startTime
PollLoop(r, t) ==
  IF r.status = "completed" THEN Continue("listing")
  ELSE IF t > MAX_POLL_TIME THEN Finally(Throws("Assistant run timeout (5 minutes)", Undefined))
  ELSE IF r.status = "failed"
  THEN Finally(Throws("Assistant run failed",
                      OrElse(Get(r.last_error, "message"), Str("Unknown error"))))
  ELSE IF r.status = "cancelled" THEN Finally(Throws("Assistant run was cancelled", Undefined))
  ELSE IF r.status = "expired" THEN Finally(Throws("Assistant run expired", Undefined))
  ELSE Continue("polling")

\* step 4: runs.create resolves with r; startTime is read, the loop entered
RunCreated(r) ==
  /\ apc = "starting"
  /\ run' = r
  /\ elapsed' = 0
  /\ polls' = 0
  /\ PollLoop(r, 0)
  /\ UNCHANGED <<fileId, remoteFiles, delFailed, reply>>

\* what the timer and runs.retrieve may take beyond POLL_INTERVAL
Latencies == {0, MAX_POLL_TIME \div 2}

\* the timer fires and runs.retrieve resolves with r; the loop is re-entered
PollReturns(r, latency) ==
  /\ apc = "polling"
  /\ run' = r
  /\ elapsed' = elapsed + POLL_INTERVAL + latency
  /\ polls' = polls + 1
  /\ PollLoop(r, elapsed')
  /\ UNCHANGED <<fileId, remoteFiles, delFailed, reply>>

Layer(n) == Obj([layer |-> n])

\* what messages.list may hold for the assistant
Replies ==
  {[kind |-> "absent"], [kind |-> "image"], [kind |-> "text", parses |-> FALSE]}
  \cup
  {[kind |-> "text", parses |-> TRUE, value |-> v] :
     v \in {Null, Num(1),
            JsonObject(<<[key |-> <<"l", "a", "y", "e", "r", "_", "1">>, value |-> Layer(1)],
                         [key |-> <<"L", "a", "y", "e", "r", " ", "2">>, value |-> Layer(2)],
                         [key |-> layer3Key, value |-> Layer(3)]>>),
            JsonObject(<<[key |-> layer1Key, value |-> Layer(1)],
                         [key |-> layer2Key, value |-> Layer(2)]>>),
            JsonObject(<<[key |-> layer1Key, value |-> Layer(1)],
                         [key |-> layer2Key, value |-> Null],
                         [key |-> layer3Key, value |-> Layer(3)]>>)}}

\* step 6: messages.list resolves; steps 7 and 8 and the structure check run
MessagesListed(rep) ==
  /\ apc = "listing"
  /\ reply' = rep
  /\ Finally(Interpret(rep))
  /\ UNCHANGED <<fileId, remoteFiles, delFailed, run, elapsed, polls>>

\* files.del resolves: the file is gone, analyze ends as the try block did
DeleteSucceeds ==
  /\ apc = "deleting"
  /\ remoteFiles' = remoteFiles \ {fileId}
  /\ apc' = "done"
  /\ outcome' = pending
  /\ UNCHANGED <<fileId, delCalls, delFailed, run, elapsed, polls, pending, reply>>

\* A faulty variant of DeleteFails: the rejection of files.del leaves the finally block.
DeleteFailsUncaught ==
  /\ apc = "deleting"
  /\ delFailed' = TRUE
  /\ apc' = "done"
  /\ outcome' = Throws("APIError", Str("deleting"))
  /\ UNCHANGED <<fileId, remoteFiles, delCalls, run, elapsed, polls, pending, reply>>

\* files.del rejects: the inner catch warns, analyze ends as the try block did
DeleteFails ==
  /\ apc = "deleting"
  /\ delFailed' = TRUE
  /\ apc' = "done"
  /\ outcome' = pending
  /\ UNCHANGED <<fileId, remoteFiles, delCalls, run, elapsed, polls, pending, reply>>

(***************************************************************************)
(* The retry wrappers downloadChartWithRetry (tradingview.js) and          *)
(* downloadChartWithLoginAndRetry (tradingview-with-login.js): the same    *)
(* loop around downloadChart and downloadChartWithLogin.                   *)
(***************************************************************************)
RetryWrappers == {"downloadChartWithRetry", "downloadChartWithLoginAndRetry"}

\* const waitTime = attempt * 5000
BackoffUnit == 5000

NotCalled ==
  [pc |-> "idle", fn |-> "none", maxRetries |-> 0, attempt |-> 0, calls |-> 0,
   lastError |-> Undefined, errors |-> <<>>, waits |-> <<>>,
   captured |-> Null, result |-> NotSettled]

\* new Error(`Failed to download chart after ${maxRetries} attempts: ${lastError.message}`)
RetriesExhausted(maxRetries, lastError) ==
  [kind |-> "threw", error |-> "Failed to download chart after attempts",
   attempts |-> maxRetries, cause |-> lastError]

\* the wrapper is called: attempt = 1 and the capture function is called
RetryCalled(fn, maxRetries) ==
  /\ retry.pc = "idle"
  /\ retry' = [retry EXCEPT !.pc = "capturing", !.fn = fn, !.maxRetries = maxRetries,
                            !.attempt = 1, !.calls = 1]

\* A faulty variant of CaptureReturns: the result is not returned from the loop.
CaptureReturnsLoopGoesOn(path) ==
  /\ retry.pc = "capturing"
  /\ IF retry.attempt < retry.maxRetries
     THEN retry' = [retry EXCEPT !.captured = Str(path), !.attempt = @ + 1, !.calls = @ + 1]
     ELSE retry' = [retry EXCEPT !.pc = "done", !.captured = Str(path),
                                 !.result = Resolves(Str(path))]

\* `return await downloadChart(date)`: the capture resolves with the file path
CaptureReturns(path) ==
  /\ retry.pc = "capturing"
  /\ retry' = [retry EXCEPT !.pc = "done", !.captured = Str(path),
                            !.result = Resolves(Str(path))]

\* A faulty variant of CaptureThrows: every wait is 5 s and the first failure is
\* the one reported.
CaptureThrowsFlat(err) ==
  /\ retry.pc = "capturing"
  /\ LET first == IF retry.errors = <<>> THEN Str(err) ELSE retry.lastError IN
     IF retry.attempt < retry.maxRetries
     THEN retry' = [retry EXCEPT !.pc = "waiting", !.lastError = first,
                                 !.errors = Append(@, Str(err)),
                                 !.waits = Append(@, BackoffUnit)]
     ELSE retry' = [retry EXCEPT !.pc = "done", !.lastError = first,
                                 !.errors = Append(@, Str(err)),
                                 !.result = RetriesExhausted(retry.maxRetries, first)]

\* the capture rejects with err: the catch block, then the wait before the next
\* attempt or, after the last attempt, the throw that follows the loop
CaptureThrows(err) ==
  /\ retry.pc = "capturing"
  /\ IF retry.attempt < retry.maxRetries
     THEN retry' = [retry EXCEPT !.pc = "waiting", !.lastError = Str(err),
                                 !.errors = Append(@, Str(err)),
                                 !.waits = Append(@, retry.attempt * BackoffUnit)]
     ELSE retry' = [retry EXCEPT !.pc = "done", !.lastError = Str(err),
                                 !.errors = Append(@, Str(err)),
                                 !.result = RetriesExhausted(retry.maxRetries, Str(err))]

\* the wait is over: attempt++ and the capture function is called again
BackoffElapses ==
  /\ retry.pc = "waiting"
  /\ retry' = [retry EXCEPT !.pc = "capturing", !.attempt = @ + 1, !.calls = @ + 1]

(***************************************************************************)
(* One execution of a capture function: downloadStockChart, downloadChart  *)
(* or downloadChartWithLogin.  Each is a try block of awaited browser      *)
(* calls, a finally that closes the browser, then saveFile.                *)
(***************************************************************************)
CaptureFunctions == {"downloadStockChart", "downloadChart", "downloadChartWithLogin"}

\* the awaited calls of the try block, in order
Steps(fn) ==
  IF fn = "downloadStockChart"
  THEN <<"launch", "newContext", "newPage", "goto", "canvas", "wait", "screenshot">>
  ELSE IF fn = "downloadChart"
  THEN <<"launch", "newContext", "newPage", "goto", "canvas", "popups", "wait",
         "finalPopups", "screenshot">>
  ELSE <<"launch", "newContext", "newPage", "login", "goto", "canvas", "popups",
         "wait", "finalPopups", "screenshot">>

\* the calls wrapped in a try/catch of their own, which logs and goes on; the
\* loop that closes popups ("popups") is followed call by call below
Caught == {"canvas", "finalPopups"}

\* for (let attempt = 1; attempt <= 3; attempt++), 5 with login
Attempts(fn) == IF fn = "downloadChart" THEN 3 ELSE 5

\* closeSelectors.length
CloseSelectors(fn) == IF fn = "downloadChart" THEN 7 ELSE 10

\* what a call rejects with
StepError(step) ==
  IF step = "launch" THEN "browserType.launch: Failed to launch"
  ELSE IF step = "login" THEN "Could not open user menu"
  ELSE IF step = "goto" THEN "page.goto: Timeout 60000ms exceeded"
  ELSE IF step = "screenshot" THEN "page.screenshot: Timeout 30000ms exceeded"
  ELSE "browser has been closed"

NotStarted ==
  [fn         |-> "none",
   date       |-> 0,             \* the date argument
   pc         |-> "idle",
   step       |-> 0,
   browser    |-> "undefined",   \* let browser
   closes     |-> 0,             \* browser.close() calls made
   screenshot |-> 0,             \* let screenshot
   pending    |-> Null,          \* the error the try block ended with
   written    |-> 0,             \* the bytes of original_chart.png
   attempt    |-> 0,             \* let attempt of the popup loop
   selector   |-> 0,             \* the index in closeSelectors
   remaining  |-> 0,             \* the closeButtons still to be visited
   at         |-> "none",        \* the await the popup loop is at
   clicks     |-> 0,             \* button.click() calls that resolved
   skipped    |-> FALSE,         \* some button.click() rejected
   result     |-> [kind |-> "none"]]

\* the function is called; downloadChartWithLogin throws at once without
\* credentials
CaptureCalled(fn, date, configured) ==
  /\ cap.pc = "idle"
  /\ IF fn = "downloadChartWithLogin" /\ ~configured
     THEN cap' = [cap EXCEPT
                    !.fn = fn, !.date = date, !.pc = "thrown",
                    !.result = [kind |-> "throws",
                                error |-> Str("TradingView credentials not configured")]]
     ELSE cap' = [cap EXCEPT !.fn = fn, !.date = date, !.pc = "try", !.step = 1]

\* after the last call of the try block comes the finally
StepDone(c) ==
  IF c.step = Len(Steps(c.fn)) THEN [c EXCEPT !.pc = "finally"]
  ELSE IF Steps(c.fn)[c.step + 1] = "popups"
  THEN [c EXCEPT !.step = @ + 1, !.attempt = 1, !.selector = 1, !.at = "query"]
  ELSE [c EXCEPT !.step = @ + 1]

\* the try block is in the loop that closes popups
InPopupLoop == cap.pc = "try" /\ Steps(cap.fn)[cap.step] = "popups"

\* the awaited call resolves
StepResolves(shot) ==
  /\ cap.pc = "try" /\ ~InPopupLoop
  /\ LET step == Steps(cap.fn)[cap.step] IN
     cap' = StepDone([cap EXCEPT
                        !.browser = IF step = "launch" THEN "open" ELSE @,
                        !.screenshot = IF step = "screenshot" THEN shot ELSE @])

\* A faulty variant of StepRejects: the catch saves what there is of the
\* screenshot.
StepRejectsAndSaves ==
  /\ cap.pc = "try" /\ ~InPopupLoop
  /\ LET step == Steps(cap.fn)[cap.step] IN
     IF step \in Caught
     THEN cap' = StepDone(cap)
     ELSE cap' = [cap EXCEPT !.pending = Str(StepError(step)), !.pc = "finally",
                             !.written = cap.screenshot]

\* the awaited call rejects
StepRejects ==
  /\ cap.pc = "try" /\ ~InPopupLoop
  /\ LET step == Steps(cap.fn)[cap.step] IN
     IF step \in Caught
     THEN cap' = StepDone(cap)
     ELSE cap' = [cap EXCEPT !.pending = Str(StepError(step)), !.pc = "finally"]

\* the attempt is over: the next one, or the code after the loop
NextAttempt(c) ==
  IF c.attempt = Attempts(c.fn)
  THEN StepDone([c EXCEPT !.selector = 0, !.remaining = 0, !.at = "none"])
  ELSE [c EXCEPT !.attempt = @ + 1, !.selector = 1, !.remaining = 0, !.at = "query"]

\* for (const selector of closeSelectors): the next selector, or the pause
\* that ends the attempt
NextSelector(c) ==
  IF c.selector = CloseSelectors(c.fn) THEN [c EXCEPT !.at = "pause"]
  ELSE [c EXCEPT !.selector = @ + 1, !.at = "query"]

\* for (const button of closeButtons): the next button, or the next selector
NextButton(c) ==
  IF c.remaining <= 1 THEN NextSelector([c EXCEPT !.remaining = 0])
  ELSE [c EXCEPT !.remaining = @ - 1, !.at = "click"]

\* page.$$(selector) resolves with n elements
SelectorResolves(n) ==
  /\ InPopupLoop /\ cap.at = "query"
  /\ cap' = IF n = 0 THEN NextSelector(cap)
            ELSE [cap EXCEPT !.remaining = n, !.at = "click"]

\* page.$$(selector) rejects: the catch of the attempt logs it
SelectorRejects ==
  /\ InPopupLoop /\ cap.at = "query"
  /\ cap' = NextAttempt(cap)

\* button.click({ timeout: 2000 }) resolves; the pause after it is awaited
ClickResolves ==
  /\ InPopupLoop /\ cap.at = "click"
  /\ cap' = [cap EXCEPT !.clicks = @ + 1, !.at = "clicked"]

\* A faulty variant of ClickRejects: the rejection ends the attempt.
ClickRejectsEndsAttempt ==
  /\ InPopupLoop /\ cap.at = "click"
  /\ cap' = NextAttempt([cap EXCEPT !.skipped = TRUE])

\* button.click rejects or times out: catch (err) { } and the next button
ClickRejects ==
  /\ InPopupLoop /\ cap.at = "click"
  /\ cap' = NextButton([cap EXCEPT !.skipped = TRUE])

\* the pause after a click settles; a rejection is caught with the click's
ClickPauseSettles ==
  /\ InPopupLoop /\ cap.at = "clicked"
  /\ cap' = NextButton(cap)

\* the pause that ends the attempt settles; a rejection is caught by the
\* attempt's catch
AttemptPauseSettles ==
  /\ InPopupLoop /\ cap.at = "pause"
  /\ cap' = NextAttempt(cap)

\* A faulty variant of CaptureFinally: the browser is closed after the try
\* block only, not in a finally.
CaptureFinallyOnSuccessOnly ==
  /\ cap.pc = "finally"
  /\ IF cap.pending # Null
     THEN cap' = [cap EXCEPT !.pc = "thrown",
                             !.result = [kind |-> "throws", error |-> cap.pending]]
     ELSE cap' = [cap EXCEPT !.pc = "save", !.browser = "closed", !.closes = @ + 1]

\* finally { if (browser) await browser.close() }, then the rethrown error or
\* the code after the try statement
CaptureFinally ==
  /\ cap.pc = "finally"
  /\ LET closed == IF cap.browser # "undefined"
                   THEN [cap EXCEPT !.browser = "closed", !.closes = @ + 1]
                   ELSE cap
     IN
     IF cap.pending # Null
     THEN cap' = [closed EXCEPT !.pc = "thrown",
                                !.result = [kind |-> "throws", error |-> cap.pending]]
     ELSE cap' = [closed EXCEPT !.pc = "save"]

\* saveFile('original_chart.png', screenshot, date) resolves: the screenshot,
\* cropped or not, is on disk
SaveFileResolves ==
  /\ cap.pc = "save"
  /\ cap' = [cap EXCEPT !.written = cap.screenshot, !.pc = "returned",
                        !.result = [kind |-> "returns",
                                    path |-> Path(cap.date, "original_chart.png")]]

\* saveFile rejects
SaveFileRejects ==
  /\ cap.pc = "save"
  /\ cap' = [cap EXCEPT !.pc = "thrown",
                        !.result = [kind |-> "throws",
                                    error |-> Str("ENOSPC: no space left on device")]]

(***************************************************************************)
(* The handlers that read: GET /analysis/latest, GET /latest-chart and     *)
(* GET /annotated-chart.  Each awaits database.getLatestAnalysis() and     *)
(* answers in the same turn the query settles in.                          *)
(***************************************************************************)
ReadEndpoints == {"GET /analysis/latest", "GET /latest-chart", "GET /annotated-chart"}

ChartEndpoints == {"GET /latest-chart", "GET /annotated-chart"}

\* the process's offset from UTC: west of it, at it, east of it
Zones == {-1, 0, 1}

NoRequest ==
  [endpoint |-> "none", pc |-> "idle", record |-> Null, status |-> 0,
   served |-> Null, error |-> Null]

\* SELECT * FROM secular_analysis ORDER BY asof_date DESC LIMIT 1
getLatestAnalysis ==
  IF store = {} THEN Null
  ELSE CHOOSE r \in store : \A q \in store : q.asof_date <= r.asof_date

\* new Date(asof_date).toISOString().split('T')[0], asof_date being the Date
\* the driver builds for a DATE column: midnight of that day in the process's
\* zone; east of UTC that instant still belongs to the day before in UTC
ToISODate(d, z) == IF z > 0 THEN d - 1 ELSE d

\* the file each chart endpoint serves
ChartFile(endpoint) ==
  IF endpoint = "GET /latest-chart" THEN "original_chart.png" ELSE "annotated_chart.png"

\* the bytes at `${dataDir}/${date}/${name}`, 0 when fs.existsSync is false
FileAt(d, name) ==
  IF d \notin Days THEN 0
  ELSE IF name = "original_chart.png" THEN files[d].original
  ELSE files[d].annotated

\* the keys of the JSON body each handler writes with each status
BodyKeys(endpoint, status) ==
  IF status = 500 /\ endpoint = "POST /analyze"
    THEN {"success", "error", "stack", "timestamp"}
  ELSE IF status = 500 THEN {"success", "error", "timestamp"}
  ELSE IF status = 409 /\ endpoint = "POST /download"
    THEN {"success", "message", "status", "timestamp"}
  ELSE IF status \in {404, 409} THEN {"success", "message", "timestamp"}
  ELSE IF status = 200 /\ endpoint = "GET /analysis/latest"
    THEN {"success", "analysis", "timestamp"}
  ELSE IF status = 200 /\ endpoint = "POST /analyze"
    THEN {"success", "message", "date", "recordId", "analysis", "timestamp"}
  ELSE {}

\* the value of the body's success key
BodySuccess(endpoint, status) == status = 200

\* a reading handler is entered and awaits the query; http follows one such
\* request
ReadRequested(endpoint) ==
  /\ http.pc = "idle"
  /\ Received
  /\ http' = [NoRequest EXCEPT !.endpoint = endpoint, !.pc = "querying"]
  /\ UNCHANGED <<jobVars, files, today, now, lastResponse, storeVars, reqs>>

\* the errors the pool rejects a query with
QueryErrors == {"connect ECONNREFUSED", "relation \"secular_analysis\" does not exist"}

\* A faulty variant of QueryRejects: the handler has no catch, the rejection
\* leaves the handler and nothing is written.
QueryRejectsUncaught(err) ==
  /\ http.pc = "querying"
  /\ http' = [http EXCEPT !.pc = "done", !.error = Str(err)]
  /\ UNCHANGED <<jobVars, envVars, storeVars, reqs>>

\* getLatestAnalysis rejects: the handler's catch
QueryRejects(err) ==
  /\ http.pc = "querying"
  /\ http' = [http EXCEPT !.pc = "done", !.status = 500, !.error = Str(err)]
  /\ Respond(http.endpoint, 500)
  /\ UNCHANGED <<jobVars, files, today, now, reqTick, storeVars, reqs>>

\* what the handler writes once the query has resolved to record
Answer(endpoint, record, readable) ==
  IF record = Null
  THEN [status |-> 404, served |-> Null, error |-> Null]
  ELSE IF endpoint = "GET /analysis/latest"
  THEN [status |-> 200, served |-> Null, error |-> Null]
  ELSE LET date == ToISODate(record.asof_date, zone)
           name == ChartFile(endpoint)
       IN
       IF FileAt(date, name) = 0
       THEN [status |-> 404, served |-> Null, error |-> Null]
       ELSE IF ~readable
       THEN [status |-> 500, served |-> Null, error |-> Str("EACCES: permission denied")]
       ELSE [status |-> 200, error |-> Null,
             served |-> [date |-> date, file |-> name, bytes |-> FileAt(date, name)]]

\* getLatestAnalysis resolves; fs.readFileSync succeeds or throws
QueryResolves(readable) ==
  /\ http.pc = "querying"
  /\ LET record == getLatestAnalysis
         answer == Answer(http.endpoint, record, readable)
     IN
     /\ http' = [http EXCEPT !.pc = "done", !.record = record,
                             !.status = answer.status,
                             !.served = answer.served,
                             !.error = answer.error]
     /\ Respond(http.endpoint, answer.status)
  /\ UNCHANGED <<jobVars, files, today, now, reqTick, storeVars, reqs>>

(***************************************************************************)
(* storage.cleanupOldDirs: one pass over the data directory.  An instant   *)
(* is a pair <<day, time of day>>; today and now are the instant new Date() *)
(* reads.                                                                  *)
(***************************************************************************)
\* the names an entry of the data directory may have: a calendar date
\* (2024-01-31), a name of the same form that is no calendar date (2024-02-00,
\* which new Date(2024, 1, 0) reads as 2024-01-31), or any other name; day is
\* the day parseDate yields
DateName(d)   == [form |-> "date", day |-> d]
RolledName(d) == [form |-> "rolled", day |-> d]
OtherName     == [form |-> "other", day |-> 0]

\* the days a directory may be dated
DirDays == 0..MaxDay

\* the entries readdir may list: directories and plain files
Entries ==
  {[name |-> DateName(d), isDirectory |-> TRUE] : d \in DirDays}
  \cup {[name |-> RolledName(0), isDirectory |-> TRUE],
        [name |-> OtherName, isDirectory |-> TRUE],
        [name |-> DateName(0), isDirectory |-> FALSE]}

\* /^\d{4}-\d{2}-\d{2}$/.test(str)
isDateFormat(name) == name.form \in {"date", "rolled"}

\* parseDate: local midnight of the day the name is read as
parseDate(name) == <<name.day, 0>>

\* instant a is before instant b
Before(a, b) == a[1] < b[1] \/ (a[1] = b[1] /\ a[2] < b[2])

\* date < cutoffDate, cutoffDate being now moved back by days days
isOlderThan(name, days) == Before(parseDate(name), <<today - days, now>>)

\* the place of a name in the order of strings: 2024-01-31 < 2024-02-00 < 2024-02-01
SortKey(name) == 2 * name.day + (IF name.form = "rolled" THEN 1 ELSE 0)

\* .sort().reverse() of a set of names
RECURSIVE SortedNewestFirst(_)
SortedNewestFirst(names) ==
  IF names = {} THEN <<>>
  ELSE LET first == CHOOSE n \in names : \A m \in names : SortKey(m) <= SortKey(n)
       IN <<first>> \o SortedNewestFirst(names \ {first})

\* listDateDirs(): the directories whose name has the date form, newest first
listDateDirs ==
  SortedNewestFirst({e.name : e \in {x \in dirs : x.isDirectory /\ isDateFormat(x.name)}})

NoPass ==
  [pc |-> "idle", dateDirs |-> <<>>, i |-> 0, removedCount |-> 0,
   removed |-> {}, failed |-> {}, result |-> Null]

\* cleanupOldDirs() up to the loop: the listing is taken
CleanupCalled ==
  /\ cleanup.pc = "idle"
  /\ cleanup' = [cleanup EXCEPT !.pc = "looping", !.dateDirs = listDateDirs, !.i = 1]
  /\ UNCHANGED dirs

\* fs.rm(dirPath, {recursive: true, force: true}) resolves
Removed(name) == {e \in dirs : ~(e.name = name /\ e.isDirectory)}

\* A faulty variant of CleanupVisit: removedCount++ stands after the try
\* statement, so a removal that failed is counted too.
CleanupVisitCountsFailures(rmOk) ==
  /\ cleanup.pc = "looping"
  /\ cleanup.i <= Len(cleanup.dateDirs)
  /\ LET name == cleanup.dateDirs[cleanup.i] IN
     IF isOlderThan(name, RetentionDays)
     THEN /\ dirs' = IF rmOk THEN Removed(name) ELSE dirs
          /\ cleanup' = [cleanup EXCEPT
                           !.i = @ + 1,
                           !.removedCount = @ + 1,
                           !.removed = IF rmOk THEN @ \cup {name} ELSE @,
                           !.failed = IF rmOk THEN @ ELSE @ \cup {name}]
     ELSE /\ cleanup' = [cleanup EXCEPT !.i = @ + 1]
          /\ UNCHANGED dirs

\* one turn of the loop: the directory is removed when it is older than the
\* retention; a removal that throws is logged and the loop goes on
CleanupVisit(rmOk) ==
  /\ cleanup.pc = "looping"
  /\ cleanup.i <= Len(cleanup.dateDirs)
  /\ LET name == cleanup.dateDirs[cleanup.i] IN
     IF isOlderThan(name, RetentionDays)
     THEN IF rmOk
          THEN /\ dirs' = Removed(name)
               /\ cleanup' = [cleanup EXCEPT !.i = @ + 1,
                                             !.removedCount = @ + 1,
                                             !.removed = @ \cup {name}]
          ELSE /\ cleanup' = [cleanup EXCEPT !.i = @ + 1, !.failed = @ \cup {name}]
               /\ UNCHANGED dirs
     ELSE /\ cleanup' = [cleanup EXCEPT !.i = @ + 1]
          /\ UNCHANGED dirs

\* return removedCount
CleanupReturns ==
  /\ cleanup.pc = "looping"
  /\ cleanup.i > Len(cleanup.dateDirs)
  /\ cleanup' = [cleanup EXCEPT !.pc = "done", !.result = Num(cleanup.removedCount)]
  /\ UNCHANGED dirs

(***************************************************************************)
(* GeminiAnnotator.annotateChart (gemini-annotator.js).  A string of       *)
(* base64 text is the sequence of its characters, a buffer the sequence of *)
(* its bytes.                                                              *)
(***************************************************************************)
\* the value of a character of the base64 alphabet
B64Value(ch) ==
  CASE ch = "A" -> 0
    [] ch = "B" -> 1
    [] ch = "I" -> 8
    [] ch = "Q" -> 16
    [] ch = "U" -> 20
    [] ch = "g" -> 32
    [] OTHER    -> 0

\* a Buffer of these bytes
Buffer(bytes) == [t |-> "buffer", v |-> bytes]

\* Buffer.from(data, 'base64') for a text of one group of four characters,
\* padded with = or not, or the empty text
FromBase64(data) ==
  IF Len(data) < 4 THEN Buffer(<<>>)
  ELSE LET n == B64Value(data[1]) * 262144 + B64Value(data[2]) * 4096
                + B64Value(data[3]) * 64 + B64Value(data[4])
           b1 == n \div 65536
           b2 == (n \div 256) % 256
           b3 == n % 256
       IN IF data[3] = "=" THEN Buffer(<<b1>>)
          ELSE IF data[4] = "=" THEN Buffer(<<b1, b2>>)
          ELSE Buffer(<<b1, b2, b3>>)

\* the parts a response may carry: text, empty text, inline data, inline data
\* that is empty
TextPart(s)   == [text |-> Str(s), inlineData |-> Undefined]
InlinePart(d) == [text |-> Undefined, inlineData |-> Obj([data |-> Str(d)])]

PartValues ==
  {TextPart("I cannot edit this image"), TextPart(""),
   InlinePart(<<"Q", "Q", "=", "=">>), InlinePart(<<"Q", "U", "I", "=">>),
   InlinePart(<<>>)}

\* response.candidates?.[0]?.content?.parts: undefined, or an array of parts
PartLists ==
  {Undefined} \cup {Arr(ps) : ps \in UNION {[1..n -> PartValues] : n \in 0..MaxParts}}

\* part => part.inlineData && part.inlineData.data
IsImagePart(part) ==
  /\ part.inlineData # Undefined
  /\ Len(part.inlineData.v.data.v) > 0

\* part => part.text
IsTextPart(part) == part.text # Undefined /\ Len(part.text.v) > 0

RECURSIVE FindLastFrom(_, _, _)
FindLastFrom(ps, i, found) ==
  IF i > Len(ps) THEN found
  ELSE FindLastFrom(ps, i + 1, IF IsImagePart(ps[i]) THEN ps[i] ELSE found)

\* A faulty variant of FindImagePart: the last part that holds inline data.
FindLastImagePart(ps) == FindLastFrom(ps, 1, Undefined)

RECURSIVE FindFrom(_, _, _)
FindFrom(ps, i, text) ==
  IF i > Len(ps) THEN Undefined
  ELSE IF (IF text THEN IsTextPart(ps[i]) ELSE IsImagePart(ps[i])) THEN ps[i]
  ELSE FindFrom(ps, i + 1, text)

\* parts.find(part => part.inlineData && part.inlineData.data)
FindImagePart(ps) == FindFrom(ps, 1, FALSE)

\* parts.find(part => part.text)
FindTextPart(ps) == FindFrom(ps, 1, TRUE)

NotAnnotating ==
  [pc          |-> "idle",
   inputExists |-> FALSE,        \* fs.existsSync(inputPath)
   calls       |-> 0,            \* generateContent calls made
   parts       |-> Null,         \* the parts of the response received
   out         |-> Null,         \* the bytes at outputPath, Null without a file
   writes      |-> 0,            \* fs.writeFileSync calls made
   result      |-> [kind |-> "none"]]

\* the path annotateChart is given to write to
OutputPath == Path(1, "annotated_chart.png")

\* annotateChart(inputPath, outputPath, layer3) up to `await generateContent`,
\* or its throw for a missing input
AnnotateCalled(inputExists) ==
  /\ ann.pc = "idle"
  /\ IF ~inputExists
     THEN ann' = [ann EXCEPT !.pc = "thrown",
                             !.result = [kind |-> "throws",
                                         error |-> "Input chart not found"]]
     ELSE ann' = [ann EXCEPT !.pc = "calling", !.inputExists = TRUE, !.calls = @ + 1]

\* generateContent resolves with these parts: the image is looked for, written
\* and the path returned, or the try block throws and the catch rethrows
GenerateContentResolves(parts) ==
  /\ ann.pc = "calling"
  /\ LET fails(message) == [ann EXCEPT !.parts = parts, !.pc = "thrown",
                                       !.result = [kind |-> "throws", error |-> message]]
     IN
     IF parts = Undefined THEN ann' = fails("No content returned from Gemini")
     ELSE LET imagePart == FindImagePart(parts.v) IN
          IF imagePart = Undefined
          THEN IF FindTextPart(parts.v) # Undefined
               THEN ann' = fails("Model returned text instead of image")
               ELSE ann' = fails("Model did not return a valid image")
          ELSE ann' = [ann EXCEPT
                         !.parts = parts,
                         !.out = FromBase64(imagePart.inlineData.v.data.v),
                         !.writes = @ + 1,
                         !.pc = "returned",
                         !.result = [kind |-> "returns", path |-> OutputPath]]

\* generateContent rejects: the catch logs and rethrows
GenerateContentRejects ==
  /\ ann.pc = "calling"
  /\ ann' = [ann EXCEPT !.pc = "thrown",
                        !.result = [kind |-> "throws", error |-> "ApiError"]]

(***************************************************************************)
(* Initial values of the parts a specification leaves alone.               *)
(***************************************************************************)
InitStore ==
  /\ store = {}
  /\ nextId = 1
  /\ lastSave = [result |-> "none", call |-> 0]

InitReqs == reqs = [r \in 1..MaxRequests |-> IdleRequest]

InitAnalyze ==
  /\ apc = "idle"
  /\ fileId = Null
  /\ remoteFiles = {}
  /\ delCalls = 0
  /\ delFailed = FALSE
  /\ run = [status |-> "none", last_error |-> Null]
  /\ elapsed = 0
  /\ polls = 0
  /\ pending = NotSettled
  /\ outcome = NotSettled
  /\ reply = [kind |-> "unread"]

InitMap ==
  /\ mapIn = Undefined
  /\ mapOut = Undefined

InitRetry == retry = NotCalled

InitCapture == cap = NotStarted /\ ann = NotAnnotating

InitServe == http = NoRequest /\ zone = 0

InitCleanup == dirs = {} /\ cleanup = NoPass

InitSide == InitCapture /\ InitServe /\ InitCleanup

InitNorm == norm = [data |-> Undefined, normalized |-> Undefined]

(***************************************************************************)
(* SpecJob: the server of index.js, its capture triggers and status.       *)
(***************************************************************************)
InitJob == InitServer /\ InitStore /\ InitReqs /\ InitAnalyze /\ InitSide /\ InitRetry /\ InitNorm /\ InitMap

\* a step of the server; the other parts of the model stay as they are
JobStep(A) == A /\ UNCHANGED <<storeVars, reqs, analyzeVars, mapVars, retryVars, normVars,
                 captureVars, serveVars, cleanupVars>>

NextJob ==
  \/ JobStep(PostDownload)
  \/ JobStep(PostDownloadFile)
  \/ \E c \in captures, shot \in 1..MaxShot : JobStep(BackgroundSucceeds(c, shot))
  \/ \E c \in captures, err \in CaptureErrors : JobStep(BackgroundFails(c, err))
  \/ \E c \in captures, shot \in 1..MaxShot : JobStep(DownloadFileSucceeds(c, shot))
  \/ \E c \in captures : JobStep(DownloadFileFails(c))
  \/ JobStep(GetHealth)
  \/ JobStep(GetDownloadStatus)
  \/ JobStep(Tick)
  \/ JobStep(NewDay)

SpecJob == InitJob /\ [][NextJob]_vars

(***************************************************************************)
(* Claims about the capture job.                                           *)
(***************************************************************************)
BackgroundInFlight == {c \in captures : c.kind = "background"}

\* a step in which the POST /download handler ran
IsPostDownloadStep ==
  /\ reqTick' # reqTick
  /\ lastResponse'.endpoint = "POST /download"
  /\ lastResponse'.status \in {202, 409}

\* C1: a POST /download received while isRunning is true is answered 409,
\* starts no capture and leaves downloadStatus as it was; so of two
\* back-to-back POST /download the second is rejected, and the status stands
\* for exactly one background capture in flight.
C1_RejectedWhileRunning ==
  /\ [][(downloadStatus.isRunning /\ IsPostDownloadStep)
          => /\ lastResponse'.status = 409
             /\ downloadStatus' = downloadStatus
             /\ captures' = captures
             /\ nextCapture' = nextCapture]_vars
  /\ [](Cardinality(BackgroundInFlight) = (IF downloadStatus.isRunning THEN 1 ELSE 0))

\* C1 witness: the first job is in flight and a second POST /download got 409
C1_Witness ==
  /\ downloadStatus.isRunning
  /\ Cardinality(BackgroundInFlight) = 1
  /\ lastResponse = [endpoint |-> "POST /download", status |-> 409]

\* C2 (as claimed): at most one chart capture is in flight at any time, whichever
\* of POST /download and POST /download-file started it.
C2_AtMostOneCaptureInFlight == Cardinality(captures) <= 1

\* the attempt count of the retry wrappers (maxRetries = 3)
DefaultMaxRetries == 3

\* capture c ends in this step with its failure surfaced: in the status of the
\* background job, or in the 500 of POST /download-file
FailureSurfaced(c) ==
  /\ c \in captures /\ c \notin captures'
  /\ \/ c.kind = "background" /\ downloadStatus'.lastError # Null
     \/ c.kind = "file" /\ lastResponse' = [endpoint |-> "POST /download-file", status |-> 500]

\* C14 (as claimed): a capture failure in a capture run by the server is
\* surfaced, in lastError or in the error response, only after the fixed
\* number of attempts has been made.
C14_FailureSurfacedAfterRetries ==
  [][\A c \in captures : FailureSurfaced(c) => c.attempts = DefaultMaxRetries]_vars

(***************************************************************************)
(* SpecJobFair: the server of index.js when every capture that was started *)
(* returns or throws.                                                      *)
(***************************************************************************)
\* downloadStockChart settles for a background job
BackgroundSettles ==
  \E c \in captures :
    \/ \E shot \in 1..MaxShot : JobStep(BackgroundSucceeds(c, shot))
    \/ \E err \in CaptureErrors : JobStep(BackgroundFails(c, err))

SpecJobFair == InitJob /\ [][NextJob]_vars /\ WF_vars(BackgroundSettles)

\* C21: every background job started by an accepted POST /download ends, given
\* that the capture returns or throws: isRunning becomes false with lastSuccess
\* true or false, and a POST /download received while isRunning is false is
\* accepted.
C21_BackgroundJobEnds ==
  /\ downloadStatus.isRunning
       ~> (~downloadStatus.isRunning
             /\ downloadStatus.lastSuccess \in {Bool(TRUE), Bool(FALSE)}
             /\ BackgroundInFlight = {})
  /\ [][(/\ ~downloadStatus.isRunning
          /\ IsPostDownloadStep
          /\ \A c \in captures' \ captures : c.kind = "background")
          => /\ lastResponse'.status = 202
             /\ downloadStatus'.isRunning
             /\ Cardinality(BackgroundInFlight') = 1]_vars

\* a second job accepted after the first one ended
C21_Witness ==
  /\ downloadStatus.isRunning
  /\ downloadStatus.lastEndTime # Null
  /\ nextCapture > 2
  /\ lastResponse = [endpoint |-> "POST /download", status |-> 202]

\* a background capture ends in this step
BackgroundEnds(c) == c \in captures /\ c.kind = "background" /\ c \notin captures'

\* C22: when the capture of a background job throws, the server keeps serving
\* requests and the status ends with isRunning = false, lastSuccess = false and
\* lastError = the error's message.
C22_BackgroundFailureRecorded ==
  /\ [][\A c \in captures :
          (BackgroundEnds(c) /\ downloadStatus'.lastSuccess # Bool(TRUE))
            => /\ ~downloadStatus'.isRunning
               /\ downloadStatus'.lastSuccess = Bool(FALSE)
               /\ downloadStatus'.lastError \in {Str(err) : err \in CaptureErrors}
               /\ downloadStatus'.lastEndTime = Time(now)
               /\ files' = files]_vars
  /\ [](downloadStatus.lastSuccess = Bool(FALSE) =>
          /\ downloadStatus.lastError # Null \/ downloadStatus.isRunning
          /\ ENABLED JobStep(GetDownloadStatus)
          /\ ENABLED JobStep(GetHealth))

\* a failed job recorded, and a status request answered after it
C22_Witness ==
  /\ ~downloadStatus.isRunning
  /\ downloadStatus.lastSuccess = Bool(FALSE)
  /\ downloadStatus.lastError = Str("browser has been closed")
  /\ lastResponse = [endpoint |-> "GET /download-status", status |-> 200]

\* C23 (as claimed): while a job is running, lastEndTime, lastSuccess, lastError
\* and lastFilePath are null: none carries a value an earlier job left.
C23_RunningStatusIsFresh ==
  downloadStatus.isRunning =>
    /\ downloadStatus.lastEndTime = Null
    /\ downloadStatus.lastSuccess = Null
    /\ downloadStatus.lastError = Null
    /\ downloadStatus.lastFilePath = Null

\* the step is the start of a background job: the fields of the start are
\* written, the others kept
JobStarts ==
  /\ ~downloadStatus.isRunning
  /\ Cardinality(BackgroundInFlight') = Cardinality(BackgroundInFlight) + 1
  /\ downloadStatus' = [downloadStatus EXCEPT !.isRunning = TRUE,
                                              !.lastStartTime = downloadStatus'.lastStartTime,
                                              !.lastError = Null]

\* the step is the end of a background job: the fields of the end are written,
\* lastStartTime kept
JobEnds ==
  /\ \E c \in captures : BackgroundEnds(c)
  /\ ~downloadStatus'.isRunning
  /\ downloadStatus'.lastStartTime = downloadStatus.lastStartTime

\* the handlers that are not the background job
OtherHandlerRuns ==
  \/ JobStep(GetHealth)
  \/ JobStep(GetDownloadStatus)
  \/ JobStep(PostDownload) /\ lastResponse'.status = 409
  \/ JobStep(PostDownloadFile)
  \/ \E c \in captures, shot \in 1..MaxShot : JobStep(DownloadFileSucceeds(c, shot))
  \/ \E c \in captures : JobStep(DownloadFileFails(c))

C36_StatusFieldsAgree ==
  /\ (downloadStatus.lastSuccess = Null) <=> (downloadStatus.lastEndTime = Null)
  /\ ~downloadStatus.isRunning =>
       /\ downloadStatus.lastSuccess = Bool(TRUE) => downloadStatus.lastError = Null
       /\ downloadStatus.lastSuccess = Bool(FALSE) => Truthy(downloadStatus.lastError)

\* a job that succeeded after an earlier one: no error is left
C36_Witness ==
  /\ ~downloadStatus.isRunning
  /\ downloadStatus.lastSuccess = Bool(TRUE)
  /\ downloadStatus.lastError = Null
  /\ nextCapture > 2
  /\ downloadStatus.lastStartTime # Time(0)

InitMapping ==
  /\ mapIn \in MapInputs
  /\ mapOut = Undefined
  /\ InitServer /\ InitStore /\ InitReqs /\ InitAnalyze /\ InitSide /\ InitRetry /\ InitNorm

\* const row = this.mapAnalysisToRow(analysis)
MapAnalysis ==
  /\ mapOut = Undefined
  /\ mapOut' = mapAnalysisToRow(mapIn)
  /\ UNCHANGED mapIn

MapStep(A) ==
  A /\ UNCHANGED <<jobVars, envVars, storeVars, reqs, analyzeVars, retryVars, normVars,
                 captureVars, serveVars, cleanupVars>>

NextMap == MapStep(MapAnalysis)

SpecMap == InitMapping /\ [][NextMap]_vars

(***************************************************************************)
(* Claims about the row mapping.                                           *)
(***************************************************************************)
\* the scenarios array mapAnalysisToRow reads from its input
ScenariosOf(analysis) ==
  OrElse(Get(Get(analysis.layer2, "scenario_analysis"), "scenarios"), Arr(<<>>))

\* the expected_move_percent of scenario slot n
RangeOf(analysis, n) ==
  Get(Index(ScenariosOf(analysis), n - 1), "expected_move_percent")

HasRange(analysis, n) ==
  /\ RangeOf(analysis, n).t = "array"
  /\ Len(RangeOf(analysis, n).v) = 2

\* C3 (as claimed): for every slot N in 1..4 whose scenario carries a 2-element
\* expected_move_percent [a, b], the row has scenarioN_expected_move_min = a and
\* scenarioN_expected_move_max = b, each a scalar, in payload order.
C3_RangeSplitPositionally ==
  mapOut # Undefined =>
    \A n \in 1..4 :
      HasRange(mapIn, n) =>
        /\ mapOut.scenario[n].expected_move_min = RangeOf(mapIn, n).v[1]
        /\ mapOut.scenario[n].expected_move_max = RangeOf(mapIn, n).v[2]

(***************************************************************************)
(* SpecStore: saveAnalysis called with one payload after another.          *)
(***************************************************************************)
InitSaving == InitServer /\ InitStore /\ InitReqs /\ InitAnalyze /\ InitSide /\ InitRetry /\ InitNorm /\ InitMap

StoreStep(A) ==
  A /\ UNCHANGED <<jobVars, files, today, lastResponse, reqTick, reqs, analyzeVars, mapVars,
                   retryVars, normVars,
                 captureVars, serveVars, cleanupVars>>

\* CURRENT_TIMESTAMP moves on
StoreTick ==
  /\ now < MaxClock
  /\ now' = now + 1
  /\ UNCHANGED storeVars

NextStore ==
  \/ \E a \in SavePayloads, dbUp \in BOOLEAN :
       StoreStep(SaveAnalysis(a, dbUp) /\ UNCHANGED now)
  \/ StoreStep(StoreTick)

SpecStore == InitSaving /\ [][NextStore]_vars

(***************************************************************************)
(* Claims about the store.                                                 *)
(***************************************************************************)
\* C6: after any sequence of saveAnalysis calls (any dates, any payloads,
\* repeated dates, failed calls) the table holds at most one row per asof_date.
C6_OneRowPerDate ==
  \A r1 \in store, r2 \in store : r1.asof_date = r2.asof_date => r1 = r2

\* C6 witness: a date was written twice, another date once, and a call failed
C6_Witness ==
  /\ \E r \in store : r.updated_at # r.created_at
  /\ Cardinality(store) = 2
  /\ lastSave.result \in {"rejected", "unreachable"}

\* the date a saveAnalysis call is keyed on
KeyOf(analysis) == Get(analysis.layer1, "asof_date")

\* the row of date d was replaced in this step by the payload of the call
Replaced(d, analysis) ==
  LET before == CHOOSE r \in RowsFor(store, d) : TRUE
      after == RowsFor(store', d)
  IN /\ Cardinality(after) = 1
     /\ \A r \in after :
          /\ r.data = SqlData(mapAnalysisToRow(analysis))
          /\ r.data.secular_trend = Get(analysis.layer1, "secular_trend")
          /\ r.data.annotated_chart_url = analysis.annotated_chart_url
          /\ r.updated_at = Time(now')
          /\ r.id = before.id
          /\ r.created_at = before.created_at

\* a saveAnalysis call for a date that already has a row reaches the database
SecondWrite ==
  /\ lastSave'.call # lastSave.call
  /\ lastSave'.result # "unreachable"
  /\ KeyOf(lastSave'.analysis).t = "date"
  /\ RowsFor(store, KeyOf(lastSave'.analysis).v) # {}

\* C7 (as claimed): a second saveAnalysis for a date D, with any payload, leaves
\* exactly one row for D; its data columns are those of the second payload, its
\* updated_at is refreshed, its id and created_at are those of the first write.
C7_SecondWriteReplaces ==
  [][SecondWrite => Replaced(KeyOf(lastSave'.analysis).v, lastSave'.analysis)]_vars

\* What holds of the upsert: when the statement executes for a date that has a
\* row, that row is replaced as C7 says.
ExecutedUpsertReplaces ==
  [][(SecondWrite /\ lastSave'.result = "saved")
       => Replaced(KeyOf(lastSave'.analysis).v, lastSave'.analysis)]_vars

\* a row written a second time, later than its first write
SecondWriteDone ==
  /\ lastSave.result = "saved"
  /\ lastSave.row \in store
  /\ lastSave.row.updated_at.v > lastSave.row.created_at.v
  /\ lastSave.row.id < nextId - 1
  /\ lastSave.row.data.secular_trend = Str("down")
  /\ lastSave.row.data.annotated_chart_url = Null

\* the scenarios of the payload of the last saveAnalysis call, and their number
LastScenarios == ScenariosOf(lastSave.analysis).v
LastCount == Len(LastScenarios)

EmptySlot(columns) ==
  /\ DOMAIN columns = {"id", "name", "probability", "path_summary", "technical_logic",
                       "target_zone", "expected_move_min", "expected_move_max",
                       "risk_profile"}
  /\ \A f \in DOMAIN columns : columns[f] = Null

\* the columns of slot n that are copied field by field hold scenario n
HoldsScenario(columns, scenario) ==
  /\ columns.id = ToSql(Get(scenario, "scenario_id"))
  /\ columns.name = ToSql(Get(scenario, "name"))
  /\ columns.probability = ToSql(Get(scenario, "probability"))
  /\ columns.path_summary = ToSql(Get(scenario, "path_summary"))
  /\ columns.technical_logic = ToSql(Get(scenario, "technical_logic"))
  /\ columns.target_zone = ToSql(Get(scenario, "target_zone_description"))
  /\ columns.risk_profile = ToSql(Get(scenario, "risk_profile"))

\* the statement's parameters of slot n pass their column types
SlotAccepted(columns) ==
  /\ DecimalAccepts(columns.probability)
  /\ DecimalAccepts(columns.expected_move_min)
  /\ DecimalAccepts(columns.expected_move_max)

C20_FourScenariosReadBack ==
  (lastSave.result \in {"saved", "rejected"} /\ LastCount = 4
     /\ KeyOf(lastSave.analysis).t = "date")
    => LET got == getAnalysisByDate(KeyOf(lastSave.analysis).v) IN
       /\ got # Null
       /\ \A n \in 1..4 :
            /\ HoldsScenario(got.data.scenario[n], LastScenarios[n])
            /\ got.data.scenario[n].expected_move_min
                 = ToSql(Index(Get(LastScenarios[n], "expected_move_percent"), 0))
            /\ got.data.scenario[n].expected_move_max
                 = ToSql(Index(Get(LastScenarios[n], "expected_move_percent"), 1))

(***************************************************************************)
(* SpecAnalyze: POST /analyze, from the stored chart to the saved record.  *)
(***************************************************************************)
\* charts of earlier captures are on disk for some of the days
InitAnalyzing ==
  /\ downloadStatus = InitialStatus
  /\ captures = {}
  /\ nextCapture = 1
  /\ files \in [Days -> {[original |-> o, annotated |-> 0] : o \in {0, 1}}]
  /\ today = 1
  /\ now = 0
  /\ lastResponse = [endpoint |-> "none", status |-> 0]
  /\ reqTick = 0
  /\ InitStore /\ InitReqs /\ InitAnalyze /\ InitSide /\ InitRetry /\ InitNorm /\ InitMap

AnalyzeStep(A) == A /\ UNCHANGED <<jobVars, analyzeVars, mapVars, retryVars, normVars,
                 captureVars, serveVars, cleanupVars>>

NextAnalyze ==
  \/ \E r \in 1..MaxRequests : AnalyzeStep(AnalyzeReceived(r))
  \/ \E r \in 1..MaxRequests, a \in AssistantPayloads : AnalyzeStep(AnalysisReturns(r, a))
  \/ \E r \in 1..MaxRequests, err \in AssistantErrors : AnalyzeStep(AnalysisThrows(r, err))
  \/ \E r \in 1..MaxRequests, shot \in 1..MaxShot : AnalyzeStep(AnnotationSucceeds(r, shot))
  \/ \E r \in 1..MaxRequests : AnalyzeStep(AnnotationFails(r))
  \/ \E r \in 1..MaxRequests, dbUp \in BOOLEAN : AnalyzeStep(SaveSettles(r, dbUp))
  \/ AnalyzeStep(AnalyzeTick)
  \/ AnalyzeStep(AnalyzeNewDay)

SpecAnalyze == InitAnalyzing /\ [][NextAnalyze]_vars

(***************************************************************************)
(* Claims about POST /analyze.                                             *)
(***************************************************************************)
\* the record of day d carries an annotated chart reference
AnnotatedSet(rows, d) ==
  \E row \in RowsFor(rows, d) : row.data.annotated_chart_url # Null

\* C4: once the record of a date D has a non-null annotated_chart_url, no
\* later step sets it back to null -- in particular not a re-run of POST
\* /analyze for D whose annotation fails.
C4_AnnotatedNeverReset ==
  [][\A d \in Days : AnnotatedSet(store, d) => AnnotatedSet(store', d)]_vars

\* C5: a POST /analyze answered 200 for date D has executed exactly one
\* upsert, and the record it wrote is the one whose asof_date is D, whatever
\* payload the assistant returned.
C5_OneUpsertOnRequestDate ==
  \A r \in 1..MaxRequests :
    reqs[r].status = 200 =>
      /\ reqs[r].writes = 1
      /\ reqs[r].savedRecord.asof_date = reqs[r].date

\* request r's saveAnalysis settles in this step
SaveSettlesFor(r) == reqs[r].pc = "saving" /\ reqs'[r].pc = "done"

\* C11 (as claimed): when the annotation failed after a successful analysis,
\* the request still upserts the record, with annotated_chart_url = NULL, and
\* answers 200 (the database being reachable).
C11_AnnotationFailureStillSaves ==
  [][\A r \in 1..MaxRequests :
       (SaveSettlesFor(r) /\ ~reqs[r].annotated /\ lastSave'.result # "unreachable")
         => /\ reqs'[r].status = 200
            /\ lastResponse' = [endpoint |-> "POST /analyze", status |-> 200]
            /\ reqs'[r].savedRecord \in store'
            /\ reqs'[r].savedRecord.data.annotated_chart_url = Null]_vars

\* C12: when assistant.analyze fails, neither the annotation nor the upsert is
\* attempted, the store and the chart files stay as they are, and the request
\* is answered 500 with the failure's message.
C12_AnalysisFailureIsFatal ==
  /\ [][\A r \in 1..MaxRequests :
          (reqs[r].pc = "analyzing" /\ reqs'[r].pc = "done")
            => /\ UNCHANGED <<store, nextId, lastSave, files>>
               /\ lastResponse' = [endpoint |-> "POST /analyze", status |-> 500]
               /\ reqs'[r].status = 500
               /\ reqs'[r].error \in {Str(err) : err \in AssistantErrors}]_vars
  /\ [](\A r \in 1..MaxRequests :
          (reqs[r].pc = "done" /\ reqs[r].analysis = Undefined)
            => /\ ~reqs[r].annotated
               /\ reqs[r].writes = 0
               /\ reqs[r].status \in {404, 500})

\* an analysis failed after another request had saved a record
C12_Witness ==
  \E r \in 1..MaxRequests :
    /\ reqs[r].pc = "done"
    /\ reqs[r].status = 500
    /\ reqs[r].analysis = Undefined
    /\ reqs[r].error = Str("Assistant run timeout (5 minutes)")
    /\ store # {}

\* C13: POST /analyze with no original chart for today answers 404 without
\* calling the assistant, the annotator or the database.
C13_MissingChartAnswers404 ==
  /\ [][\A r \in 1..MaxRequests :
          (reqs[r].pc = "idle" /\ reqs'[r].pc # "idle" /\ files[today].original = 0)
            => /\ reqs'[r].pc = "done"
               /\ reqs'[r].status = 404
               /\ lastResponse' = [endpoint |-> "POST /analyze", status |-> 404]
               /\ UNCHANGED <<store, nextId, lastSave, files>>]_vars
  /\ [](\A r \in 1..MaxRequests :
          reqs[r].status = 404
            => /\ reqs[r].pc = "done"
               /\ reqs[r].analysis = Undefined
               /\ ~reqs[r].annotated
               /\ reqs[r].writes = 0)

\* a request of day 2, which has no chart, answered 404 after a record of
\* day 1 was saved
C13_Witness ==
  \E r \in 1..MaxRequests :
    /\ reqs[r].status = 404
    /\ reqs[r].date = 2
    /\ store # {}

\* the requests answered 200 for one and the same date
SavedFor(d) == {r \in 1..MaxRequests : reqs[r].status = 200 /\ reqs[r].date = d}

\* C24 (as claimed): after two POST /analyze runs for the same date have both
\* finished, the store holds exactly one row for that date, and all its data
\* columns come from the payload whose upsert executed last.
C24_LastUpsertWins ==
  \A d \in Days :
    (Cardinality(SavedFor(d)) >= 2 /\ lastSave.result = "saved") =>
      \E row \in store :
        /\ RowsFor(store, d) = {row}
        /\ row.data = SqlData(mapAnalysisToRow(lastSave.analysis))

\* What holds of two such runs: the row of the date the last payload names is
\* the only one of that date and carries that payload's columns.
LastUpsertWinsOnPayloadDate ==
  \A d \in Days :
    (Cardinality(SavedFor(d)) >= 2 /\ lastSave.result = "saved") =>
      \E row \in store :
        /\ RowsFor(store, KeyOf(lastSave.analysis).v) = {row}
        /\ row.data = SqlData(mapAnalysisToRow(lastSave.analysis))

\* C25: when the upsert of saveAnalysis fails, POST /analyze answers with the
\* error and the stored rows are exactly what they were before the call.
C25_FailedSaveChangesNothing ==
  [][\A r \in 1..MaxRequests :
       (SaveSettlesFor(r) /\ lastSave'.result # "saved")
         => /\ store' = store
            /\ nextId' = nextId
            /\ reqs'[r].status = 500
            /\ reqs'[r].error \in {Str("rejected"), Str("unreachable")}
            /\ reqs'[r].savedRecord = Null
            /\ lastResponse' = [endpoint |-> "POST /analyze", status |-> 500]]_vars

\* a save the database rejected, a row of an earlier save still stored
C25_Witness ==
  /\ lastSave.result = "rejected"
  /\ store # {}
  /\ \E r \in 1..MaxRequests : reqs[r].status = 500 /\ reqs[r].error = Str("rejected")
  /\ lastResponse = [endpoint |-> "POST /analyze", status |-> 500]

\* the steps of one POST /analyze in the order of the handler: from each
\* position the one that follows it, or the response that ends the run
FollowsInHandler(from, to) ==
  \/ from = "idle"       /\ to \in {"analyzing", "done"}
  \/ from = "analyzing"  /\ to \in {"annotating", "done"}
  \/ from = "annotating" /\ to = "saving"
  \/ from = "saving"     /\ to = "done"

\* C32: within one POST /analyze the chart check, the analysis call, the
\* annotation call, the upsert and the response follow one another in this
\* order, each started when the one before has settled; the store is written
\* only by a run whose annotation attempt has settled, and the run is answered
\* when it ends and not before.
C32_AnalyzeStepsInOrder ==
  /\ [][\A r \in 1..MaxRequests :
          reqs'[r].pc # reqs[r].pc => FollowsInHandler(reqs[r].pc, reqs'[r].pc)]_vars
  /\ [][(store' # store \/ lastSave' # lastSave)
          => \E r \in 1..MaxRequests : reqs[r].pc = "saving" /\ reqs'[r].pc = "done"]_vars
  /\ [][\A r \in 1..MaxRequests :
          /\ reqs'[r].pc = "analyzing" /\ reqs[r].pc # "analyzing"
               => files[reqs'[r].date].original # 0
          /\ reqs'[r].pc = "saving" /\ reqs[r].pc # "saving"
               => /\ reqs'[r].analysis # Undefined
                  /\ reqs'[r].analysis.annotated_chart_url
                       \in {Null, Path(reqs[r].date, "annotated_chart.png")}
          /\ reqs'[r].status # reqs[r].status => reqs'[r].pc = "done"]_vars
  /\ [](\A r \in 1..MaxRequests :
          /\ reqs[r].pc # "done" => reqs[r].status = 0
          /\ reqs[r].pc \in {"idle", "analyzing", "annotating"} => reqs[r].writes = 0)

\* a run answered 200 whose annotation attempt had failed: the record was
\* stored after the attempt, without an annotated chart
C32_Witness ==
  \E r \in 1..MaxRequests :
    /\ reqs[r].pc = "done" /\ reqs[r].status = 200
    /\ reqs[r].writes = 1
    /\ ~reqs[r].annotated
    /\ reqs[r].analysis.annotated_chart_url = Null

(***************************************************************************)
(* SpecAssistant: one call of OpenAIAssistant.analyze.                     *)
(***************************************************************************)
InitAssistant == InitServer /\ InitStore /\ InitReqs /\ InitAnalyze /\ InitSide /\ InitRetry /\ InitNorm /\ InitMap

AssistantStep(A) == A /\ UNCHANGED <<jobVars, envVars, storeVars, reqs, mapVars, retryVars, normVars,
                 captureVars, serveVars, cleanupVars>>

NextAssistant ==
  \/ \E chartExists \in BOOLEAN : AssistantStep(AnalyzeCalled(chartExists))
  \/ AssistantStep(UploadSucceeds)
  \/ \E pc \in {"uploading", "threading", "messaging", "starting", "polling", "listing"} :
       AssistantStep(RemoteCallFails(pc))
  \/ AssistantStep(ThreadCreated)
  \/ AssistantStep(MessageSent)
  \/ \E r \in RunObjects : AssistantStep(RunCreated(r))
  \/ \E r \in RunObjects, latency \in Latencies : AssistantStep(PollReturns(r, latency))
  \/ \E rep \in Replies : AssistantStep(MessagesListed(rep))
  \/ AssistantStep(DeleteSucceeds)
  \/ AssistantStep(DeleteFails)

SpecAssistant == InitAssistant /\ [][NextAssistant]_vars

(***************************************************************************)
(* Claims about OpenAIAssistant.analyze.                                   *)
(***************************************************************************)
FailureStates == {"failed", "cancelled", "expired"}

\* the message analyze raises for a failure state of the run
StateError(status) ==
  CASE status = "failed"    -> "Assistant run failed"
    [] status = "cancelled" -> "Assistant run was cancelled"
    [] status = "expired"   -> "Assistant run expired"

TimeoutError == "Assistant run timeout (5 minutes)"

\* the try block has ended, with an error of this message
Raised(message) == pending.kind = "threw" /\ pending.error = message

\* C8 (as claimed): whenever the status observed during polling is failed,
\* cancelled or expired, analyze raises the error of that state; the timeout
\* error is raised only when no such state has been observed.
C8_FailureStateRaisesItsError ==
  /\ (pending.kind # "none" /\ run.status \in FailureStates)
       => Raised(StateError(run.status))
  /\ Raised(TimeoutError) => run.status \notin FailureStates

\* C8 (amended): a status failed, cancelled or expired observed no later than
\* MAX_POLL_TIME after polling began raises the error of that state; the timeout
\* error is raised exactly when a status other than completed is observed later
\* than MAX_POLL_TIME after polling began, a failure state included.
C8_FailureStateWithinBound ==
  pending.kind # "none" =>
    /\ (run.status \in FailureStates /\ elapsed <= MAX_POLL_TIME)
         => Raised(StateError(run.status))
    /\ Raised(TimeoutError) <=> (run.status # "completed" /\ elapsed > MAX_POLL_TIME)

\* a failure state observed by a retrieval within the bound, its error raised
C8_Witness ==
  /\ apc = "done"
  /\ polls > 0
  /\ run.status = "cancelled"
  /\ outcome = Throws("Assistant run was cancelled", Undefined)

\* the file was uploaded
Uploaded == fileId # Null

\* files.del is called only once the try block has ended, and before that the
\* uploaded file is held by the remote service
DeletionFollowsOutcome ==
  /\ delCalls > 0 => pending.kind # "none"
  /\ (Uploaded /\ apc \notin {"deleting", "done"})
       => (delCalls = 0 /\ fileId \in remoteFiles)

\* C9 (as claimed): in every execution in which the upload succeeded the
\* remote file is deleted exactly once, after the outcome is determined, on
\* the success path and on every failure path.
C9_DeletedExactlyOnce ==
  /\ DeletionFollowsOutcome
  /\ (Uploaded /\ apc = "done") => (delCalls = 1 /\ fileId \notin remoteFiles)

\* C9 (amended): in every execution in which the upload succeeded the deletion
\* of the remote file is requested exactly once, after the outcome is
\* determined, on the success path and on every failure path; the file is gone
\* unless that request fails, and then it stays with the remote service.
C9_DeletionRequestedExactlyOnce ==
  /\ DeletionFollowsOutcome
  /\ (Uploaded /\ apc = "done")
       => (delCalls = 1 /\ (fileId \in remoteFiles <=> delFailed))

\* a failure path (a layer missing) ended with the uploaded file deleted
C9_Witness ==
  /\ apc = "done"
  /\ Uploaded
  /\ outcome.kind = "threw"
  /\ outcome.error = "Response missing required layers (layer1, layer2, layer3)"
  /\ delCalls = 1
  /\ fileId \notin remoteFiles

\* C10: a failure of files.del never changes how analyze ends: a successful
\* analysis returns its normalized result, a failed one raises the error the
\* try block ended with, never the deletion's error.
C10_DeletionFailureKeepsOutcome ==
  (apc = "done" /\ delFailed) =>
    /\ outcome = pending
    /\ outcome.kind = "returned" => outcome.value = normalizeKeys(reply.value)
    /\ outcome.kind = "threw" => outcome.detail # Str("deleting")
    /\ (run.status = "completed" /\ reply.kind # "unread") => outcome = Interpret(reply)

\* files.del failed after a successful analysis, which is returned
C10_Witness ==
  /\ apc = "done"
  /\ delFailed
  /\ outcome.kind = "returned"
  /\ DOMAIN outcome.value = {layer1Key, layer2Key, layer3Key}

LayerKeys == {layer1Key, layer2Key, layer3Key}

\* the parsed response has no entry for some layer, however its key is written
MissesALayer(value) ==
  \E k \in LayerKeys :
    \A i \in 1..Len(ObjectEntries(value)) :
      \/ ToLowerCaseAll(WithoutSeparators(ObjectEntries(value)[i].key)) # k

\* C18: analyze returns a result only when the run was observed completed and
\* the normalized response holds all of layer1, layer2 and layer3; a response
\* that lacks one of them under every variant of its key makes analyze fail,
\* never return a partial result.
C18_ResultHasAllLayers ==
  /\ outcome.kind = "returned" =>
       /\ run.status = "completed"
       /\ reply.kind = "text" /\ reply.parses
       /\ outcome.value = normalizeKeys(reply.value)
       /\ \A k \in LayerKeys : k \in DOMAIN outcome.value /\ Truthy(outcome.value[k])
  /\ (apc = "done" /\ reply.kind = "text" /\ reply.parses /\ ~Nullish(reply.value)
        /\ MissesALayer(reply.value))
       => outcome = Throws("Response missing required layers (layer1, layer2, layer3)",
                           Undefined)

\* a response with layer1 and layer2 but no layer3 made analyze fail
C18_Witness ==
  /\ apc = "done"
  /\ run.status = "completed"
  /\ reply.kind = "text" /\ reply.parses
  /\ reply.value.t = "json"
  /\ Len(reply.value.v) = 2
  /\ outcome.kind = "threw"
  /\ outcome.error = "Response missing required layers (layer1, layer2, layer3)"

(***************************************************************************)
(* SpecAssistantFair: one call of OpenAIAssistant.analyze in which the     *)
(* timer fires and every runs.retrieve settles.                            *)
(***************************************************************************)
PollSettles ==
  \/ \E r \in RunObjects, latency \in Latencies : AssistantStep(PollReturns(r, latency))
  \/ AssistantStep(RemoteCallFails("polling"))

SpecAssistantFair == InitAssistant /\ [][NextAssistant]_vars /\ WF_vars(PollSettles)

\* the retrievals the loop can make before the clock passes MAX_POLL_TIME
MaxRetrievals == MAX_POLL_TIME \div POLL_INTERVAL + 1

\* the loop has been left: to messages.list, or with an error of the run's
\* state, the timeout error or the error of a rejected retrieval
LoopEnded ==
  \/ apc = "listing" /\ run.status = "completed" /\ pending.kind = "none"
  \/ \E st \in FailureStates : Raised(StateError(st)) /\ run.status = st
  \/ Raised(TimeoutError) /\ elapsed > MAX_POLL_TIME
  \/ Raised("APIError")

\* C33: the polling loop ends for every sequence of run statuses, the ones that
\* are neither completed nor a failure state included: in success, an error of
\* the run's state or the timeout error, after at most MaxRetrievals retrievals
\* that are POLL_INTERVAL or more apart.
C33_PollingTerminates ==
  /\ [](/\ polls <= MaxRetrievals
        /\ elapsed >= polls * POLL_INTERVAL
        /\ apc = "polling" => (elapsed <= MAX_POLL_TIME /\ polls < MaxRetrievals))
  /\ (apc = "polling") ~> LoopEnded

\* a run that stayed in requires_action, retrieved as fast as the loop allows:
\* the timeout error after MaxRetrievals retrievals
C33_Witness ==
  /\ Raised(TimeoutError)
  /\ run.status = "requires_action"
  /\ polls = MaxRetrievals

\* C39: a run observed as completed is never reported as a timeout, however
\* long after the start of polling it is observed: the loop is left for
\* messages.list.
C39_CompletedIsNeverTimeout ==
  /\ run.status = "completed" => ~Raised(TimeoutError)
  /\ (run.status = "completed" /\ apc = "listing") => pending.kind = "none"
  /\ run.status = "completed" => apc # "polling"

\* completed observed later than MAX_POLL_TIME after polling began, and
\* messages.list called
C39_Witness ==
  /\ run.status = "completed"
  /\ elapsed > MAX_POLL_TIME
  /\ apc = "listing"
  /\ pending.kind = "none"

(***************************************************************************)
(* SpecRetry: one call of a retry wrapper.                                 *)
(***************************************************************************)
InitRetrying == InitServer /\ InitStore /\ InitReqs /\ InitAnalyze /\ InitSide /\ InitRetry /\ InitNorm /\ InitMap

RetryStep(A) ==
  A /\ UNCHANGED <<jobVars, envVars, storeVars, reqs, analyzeVars, mapVars, normVars,
                 captureVars, serveVars, cleanupVars>>

NextRetry ==
  \/ \E fn \in RetryWrappers, maxRetries \in 1..MaxRetries : RetryStep(RetryCalled(fn, maxRetries))
  \/ \E path \in {"chart.png"} : RetryStep(CaptureReturns(path))
  \/ \E err \in CaptureErrors : RetryStep(CaptureThrows(err))
  \/ RetryStep(BackoffElapses)

SpecRetry == InitRetrying /\ [][NextRetry]_vars

(***************************************************************************)
(* Claims about the retry wrappers.                                        *)
(***************************************************************************)
\* C15: for every k < maxRetries, when the capture function fails on its first
\* k calls and then succeeds, the wrapper returns the success result after
\* exactly k + 1 capture calls, and none of the k failures reaches the caller.
C15_SuccessAfterFailures ==
  /\ [][(retry.pc = "capturing" /\ retry'.captured # Null)
          => /\ retry'.pc = "done"
             /\ retry'.result = Resolves(retry'.captured)
             /\ retry'.calls = Len(retry.errors) + 1]_vars
  /\ [](retry.captured # Null
          => /\ retry.pc = "done"
             /\ retry.result = Resolves(retry.captured)
             /\ Len(retry.errors) < retry.maxRetries
             /\ retry.calls = Len(retry.errors) + 1)

\* two failures, then a success on the third call of three
C15_Witness ==
  /\ retry.pc = "done"
  /\ retry.maxRetries = 3
  /\ Len(retry.errors) = 2
  /\ retry.calls = 3
  /\ retry.result = Resolves(Str("chart.png"))

\* C16: when the capture fails on all maxRetries calls, the wrapper makes
\* exactly maxRetries capture calls, waits attempt x 5 s after each failed
\* attempt but the last, and then raises one error that wraps the message of
\* the last failure.
C16_ExhaustedRetries ==
  /\ retry.pc = "waiting" =>
       /\ Len(retry.waits) = retry.attempt
       /\ retry.waits[retry.attempt] = retry.attempt * BackoffUnit
  /\ (retry.pc = "done" /\ retry.captured = Null) =>
       /\ retry.calls = retry.maxRetries
       /\ Len(retry.errors) = retry.maxRetries
       /\ retry.waits = [i \in 1..(retry.maxRetries - 1) |-> i * BackoffUnit]
       /\ retry.result = RetriesExhausted(retry.maxRetries, retry.errors[retry.maxRetries])

\* three failures of three attempts, the last one different from the first
C16_Witness ==
  /\ retry.pc = "done"
  /\ retry.maxRetries = 3
  /\ retry.calls = 3
  /\ Len(retry.errors) = 3
  /\ retry.waits = <<5000, 10000>>
  /\ retry.errors[1] # retry.errors[3]
  /\ retry.result.kind = "threw"
  /\ retry.result.cause = retry.errors[3]

(***************************************************************************)
(* SpecNormalize: normalizeKeys applied to a 3-layer payload whose layer    *)
(* keys are written in any of their variants.                              *)
(***************************************************************************)
\* the ways the key of layer d is written
KeyVariants(d) ==
  {<<"l", "a", "y", "e", "r", d>>,
   <<"l", "a", "y", "e", "r", "_", d>>,
   <<"L", "a", "y", "e", "r", " ", d>>,
   <<"L", "A", "Y", "E", "R", "_", d>>,
   <<"l", "a", "y", "e", "r", " ", "_", d>>}

\* what a layer may hold
LayerValues(n) == {Layer(n), Obj([layer |-> n, asof_date |-> DateStr(1)])}

ThreeLayerPayloads ==
  {JsonObject(<<[key |-> k1, value |-> v1],
                [key |-> k2, value |-> Layer(2)],
                [key |-> k3, value |-> Layer(3)]>>) :
     k1 \in KeyVariants("1"), k2 \in KeyVariants("2"), k3 \in KeyVariants("3"),
     v1 \in LayerValues(1)}

InitNormalizing ==
  /\ norm \in {[data |-> d, normalized |-> Undefined] : d \in ThreeLayerPayloads}
  /\ InitServer /\ InitStore /\ InitReqs /\ InitAnalyze /\ InitSide /\ InitRetry /\ InitMap

\* const normalized = this.normalizeKeys(analysis)
NormalizeKeys ==
  /\ norm.normalized = Undefined
  /\ norm' = [norm EXCEPT !.normalized = normalizeKeys(norm.data)]

NormalizeStep(A) ==
  A /\ UNCHANGED <<jobVars, envVars, storeVars, reqs, analyzeVars, mapVars, retryVars,
                 captureVars, serveVars, cleanupVars>>

NextNormalize == NormalizeStep(NormalizeKeys)

SpecNormalize == InitNormalizing /\ [][NextNormalize]_vars

\* C17: for every 3-layer payload, whichever case/space/underscore variant its
\* layer keys are written in, normalizeKeys yields the same structure: keys
\* layer1, layer2, layer3, each with the value the payload gave that layer.
C17_VariantsNormalizeAlike ==
  norm.normalized # Undefined =>
    /\ DOMAIN norm.normalized = {layer1Key, layer2Key, layer3Key}
    /\ norm.normalized[layer1Key] = norm.data.v[1].value
    /\ norm.normalized[layer2Key] = norm.data.v[2].value
    /\ norm.normalized[layer3Key] = norm.data.v[3].value

\* "LAYER_1", "Layer 2" and "layer _3" normalized
C17_Witness ==
  /\ norm.normalized # Undefined
  /\ norm.data.v[1].key = <<"L", "A", "Y", "E", "R", "_", "1">>
  /\ norm.data.v[2].key = <<"L", "a", "y", "e", "r", " ", "2">>
  /\ norm.data.v[3].key = <<"l", "a", "y", "e", "r", " ", "_", "3">>
  /\ norm.normalized[layer1Key] = Obj([layer |-> 1, asof_date |-> DateStr(1)])

(***************************************************************************)
(* SpecCapture: one execution of a capture function.                       *)
(***************************************************************************)
InitCapturing ==
  /\ cap \in {[NotStarted EXCEPT !.written = w] : w \in 0..MaxShot}
  /\ ann = NotAnnotating
  /\ InitServe /\ InitCleanup
  /\ InitServer /\ InitStore /\ InitReqs /\ InitAnalyze /\ InitRetry /\ InitNorm /\ InitMap

CaptureStep(A) == A /\ UNCHANGED <<coreVars, ann, serveVars, cleanupVars>>

NextCapture ==
  \/ \E fn \in CaptureFunctions, date \in Days, configured \in BOOLEAN :
       CaptureStep(CaptureCalled(fn, date, configured))
  \/ \E shot \in 1..MaxShot : CaptureStep(StepResolves(shot))
  \/ CaptureStep(StepRejects)
  \/ \E n \in 0..MaxButtons : CaptureStep(SelectorResolves(n))
  \/ CaptureStep(SelectorRejects)
  \/ CaptureStep(ClickResolves)
  \/ CaptureStep(ClickRejects)
  \/ CaptureStep(ClickPauseSettles)
  \/ CaptureStep(AttemptPauseSettles)
  \/ CaptureStep(CaptureFinally)
  \/ CaptureStep(SaveFileResolves)
  \/ CaptureStep(SaveFileRejects)

SpecCapture == InitCapturing /\ [][NextCapture]_vars

\* C26: in every capture execution that launched the browser, the browser is
\* closed exactly once before the capture returns or throws, whichever call
\* failed, and the file is written only after that close.
C26_BrowserClosedOnce ==
  /\ [](/\ cap.closes <= 1
        /\ (cap.pc \in {"save", "returned", "thrown"} /\ cap.browser # "undefined")
             => (cap.closes = 1 /\ cap.browser = "closed"))
  /\ [][cap'.written # cap.written
          => (cap.closes = 1 /\ cap.browser = "closed" /\ cap'.closes = 1)]_vars

\* a login failure: the browser was launched, closed once, the error rethrown
C26_Witness ==
  /\ cap.fn = "downloadChartWithLogin"
  /\ cap.pc = "thrown"
  /\ cap.result = [kind |-> "throws", error |-> Str("Could not open user menu")]
  /\ cap.browser = "closed"
  /\ cap.closes = 1

\* C38: a capture that fails in the browser (launch, login, navigation or
\* screenshot) writes no file: original_chart.png of an earlier capture stays
\* as it was; the file is written by saveFile only, with the screenshot that
\* was obtained.
C38_FailedCaptureWritesNothing ==
  /\ [][cap'.written # cap.written
          => /\ cap.pc = "save" /\ cap'.pc = "returned"
             /\ cap.pending = Null
             /\ cap.screenshot # 0
             /\ cap'.written = cap.screenshot]_vars
  /\ [][(cap.pc \in {"try", "finally"} /\ (cap'.pending # Null \/ cap'.pc = "thrown"))
          => cap'.written = cap.written]_vars
  /\ [](cap.pending # Null => cap.pc \in {"finally", "thrown"})

\* the navigation failed while the chart of an earlier capture was on disk:
\* the error is rethrown, the file is the earlier one
C38_Witness ==
  /\ cap.pc = "thrown"
  /\ cap.result = [kind |-> "throws", error |-> Str("page.goto: Timeout 60000ms exceeded")]
  /\ cap.screenshot = 0
  /\ cap.written = MaxShot

(***************************************************************************)
(* SpecCaptureFair: one execution of a capture function in which every     *)
(* call awaited by the loop that closes popups settles.                    *)
(***************************************************************************)
PopupLoopSettles ==
  \/ \E n \in 0..MaxButtons : CaptureStep(SelectorResolves(n))
  \/ CaptureStep(SelectorRejects)
  \/ CaptureStep(ClickResolves)
  \/ CaptureStep(ClickRejects)
  \/ CaptureStep(ClickPauseSettles)
  \/ CaptureStep(AttemptPauseSettles)

SpecCaptureFair == InitCapturing /\ [][NextCapture]_vars /\ WF_vars(PopupLoopSettles)

\* the loop was left after its last attempt, for the wait before the screenshot
PastPopupLoop ==
  /\ cap.pc = "try" /\ Steps(cap.fn)[cap.step] = "wait"
  /\ cap.pending = Null
  /\ cap.fn = "downloadChart" => cap.attempt = 3
  /\ cap.fn = "downloadChartWithLogin" => cap.attempt = 5

\* C34: the loop that closes popups ends after its 3 attempts, 5 with login,
\* and the capture goes on towards the screenshot; a click that rejects or
\* times out is skipped, the attempt and the capture going on; a click is made
\* only on an element a selector matched, so none is made when none matches.
C34_PopupLoopFinishes ==
  /\ [](InPopupLoop => (cap.attempt \in 1..Attempts(cap.fn) /\ cap.pending = Null))
  /\ [][(InPopupLoop /\ ~InPopupLoop') => PastPopupLoop']_vars
  /\ [][(InPopupLoop /\ cap.at = "click" /\ cap'.clicks = cap.clicks)
          => /\ InPopupLoop'
             /\ cap'.attempt = cap.attempt
             /\ cap'.selector >= cap.selector
             /\ cap'.skipped]_vars
  /\ [][cap'.clicks # cap.clicks
          => /\ InPopupLoop /\ cap.at = "click" /\ cap.remaining > 0
             /\ cap'.clicks = cap.clicks + 1]_vars
  /\ InPopupLoop ~> PastPopupLoop

\* with login, every click rejected: the five attempts were made without a
\* click and the capture waits for the chart
C34_Witness ==
  /\ cap.fn = "downloadChartWithLogin"
  /\ PastPopupLoop
  /\ cap.skipped
  /\ cap.clicks = 0

(***************************************************************************)
(* SpecHandlers: the handlers of test-download-with-login.js that call a   *)
(* component, each component resolving or throwing.                        *)
(***************************************************************************)
InitHandling ==
  /\ InitServer
  /\ http = NoRequest
  /\ zone \in Zones
  /\ InitCapture /\ InitCleanup
  /\ InitStore /\ InitReqs /\ InitAnalyze /\ InitRetry /\ InitNorm /\ InitMap

ReadStep(A) ==
  A /\ UNCHANGED <<analyzeVars, mapVars, retryVars, normVars, captureVars, zone, cleanupVars>>

NextHandlers ==
  \/ JobStep(PostDownloadFile)
  \/ \E c \in captures, shot \in 1..MaxShot : JobStep(DownloadFileSucceeds(c, shot))
  \/ \E c \in captures : JobStep(DownloadFileFails(c))
  \/ \E r \in 1..MaxHandled : AnalyzeStep(AnalyzeReceived(r))
  \/ \E r \in 1..MaxHandled, a \in AssistantPayloads : AnalyzeStep(AnalysisReturns(r, a))
  \/ \E r \in 1..MaxHandled, err \in AssistantErrors : AnalyzeStep(AnalysisThrows(r, err))
  \/ \E r \in 1..MaxHandled, shot \in 1..MaxShot : AnalyzeStep(AnnotationSucceeds(r, shot))
  \/ \E r \in 1..MaxHandled : AnalyzeStep(AnnotationFails(r))
  \/ \E r \in 1..MaxHandled, dbUp \in BOOLEAN : AnalyzeStep(SaveSettles(r, dbUp))
  \/ \E endpoint \in ReadEndpoints : ReadStep(ReadRequested(endpoint))
  \/ \E err \in QueryErrors : ReadStep(QueryRejects(err))
  \/ \E readable \in BOOLEAN : ReadStep(QueryResolves(readable))

SpecHandlers == InitHandling /\ [][NextHandlers]_vars

\* the steps in which a component's error reaches its handler
CaptureThrew == \E c \in captures : JobStep(DownloadFileFails(c))

AssistantThrew ==
  \E r \in 1..MaxHandled, err \in AssistantErrors : AnalyzeStep(AnalysisThrows(r, err))

AnnotatorThrew == \E r \in 1..MaxHandled : AnalyzeStep(AnnotationFails(r))

SaveThrew == (\E r \in 1..MaxHandled : SaveSettlesFor(r)) /\ lastSave'.result # "saved"

QueryThrew == \E err \in QueryErrors : ReadStep(QueryRejects(err))

\* the response written is endpoint's error response: an error status and a
\* body with success: false, error and timestamp
ErrorAnswered(endpoints) ==
  /\ lastResponse'.endpoint \in endpoints
  /\ lastResponse'.status >= 400
  /\ {"success", "error", "timestamp"} \subseteq
       BodyKeys(lastResponse'.endpoint, lastResponse'.status)
  /\ ~BodySuccess(lastResponse'.endpoint, lastResponse'.status)

\* C27 (as claimed): every handler that calls a component turns any error the
\* component throws into a response {success: false, error, timestamp} with an
\* error status.
C27_EveryComponentErrorAnswered ==
  [][/\ CaptureThrew => ErrorAnswered({"POST /download-file"})
     /\ (AssistantThrew \/ AnnotatorThrew \/ SaveThrew) => ErrorAnswered({"POST /analyze"})
     /\ QueryThrew => ErrorAnswered({http.endpoint})]_vars

\* C27 (amended): an error of the capture, of assistant.analyze or of the
\* database is answered 500 with success: false, error and timestamp (and the
\* stack, by POST /analyze); an error of the annotator is caught inside POST
\* /analyze, which writes nothing yet and goes on to save the record without
\* the annotated chart.
C27_ComponentErrorAnswered ==
  [][/\ CaptureThrew
          => /\ ErrorAnswered({"POST /download-file"})
             /\ lastResponse'.status = 500
             /\ BodyKeys("POST /download-file", 500) = {"success", "error", "timestamp"}
     /\ (AssistantThrew \/ SaveThrew)
          => /\ ErrorAnswered({"POST /analyze"})
             /\ lastResponse'.status = 500
             /\ BodyKeys("POST /analyze", 500) = {"success", "error", "stack", "timestamp"}
             /\ \E r \in 1..MaxHandled : reqs'[r].status = 500 /\ reqs'[r].error # Null
     /\ QueryThrew
          => /\ ErrorAnswered({http.endpoint})
             /\ lastResponse'.status = 500
             /\ http'.status = 500
             /\ http'.error \in {Str(err) : err \in QueryErrors}
             /\ BodyKeys(http.endpoint, 500) = {"success", "error", "timestamp"}
     /\ AnnotatorThrew
          => /\ UNCHANGED lastResponse
             /\ \E r \in 1..MaxHandled :
                  /\ reqs[r].pc = "annotating" /\ reqs'[r].pc = "saving"
                  /\ reqs'[r].analysis.annotated_chart_url = Null]_vars

\* a chart request whose query was refused, answered 500, after a POST
\* /analyze whose annotation failed was answered 200
C27_Witness ==
  /\ http.endpoint = "GET /annotated-chart"
  /\ http.status = 500
  /\ http.error = Str("connect ECONNREFUSED")
  /\ lastResponse = [endpoint |-> "GET /annotated-chart", status |-> 500]
  /\ \E r \in 1..MaxHandled : reqs[r].status = 200 /\ ~reqs[r].annotated

(***************************************************************************)
(* SpecServe: POST /analyze and the reading handlers, in any zone.         *)
(***************************************************************************)
InitServing ==
  /\ downloadStatus = InitialStatus
  /\ captures = {}
  /\ nextCapture = 1
  /\ files \in [Days -> {[original |-> o, annotated |-> 0] : o \in {0, 1}}]
  /\ today = 1
  /\ now = 0
  /\ lastResponse = [endpoint |-> "none", status |-> 0]
  /\ reqTick = 0
  /\ http = NoRequest
  /\ zone \in Zones
  /\ InitCapture /\ InitCleanup
  /\ InitStore /\ InitReqs /\ InitAnalyze /\ InitRetry /\ InitNorm /\ InitMap

NextServe ==
  \/ \E r \in 1..MaxRequests : AnalyzeStep(AnalyzeReceived(r))
  \/ \E r \in 1..MaxRequests, a \in AssistantPayloads : AnalyzeStep(AnalysisReturns(r, a))
  \/ \E r \in 1..MaxRequests, err \in AssistantErrors : AnalyzeStep(AnalysisThrows(r, err))
  \/ \E r \in 1..MaxRequests, shot \in 1..MaxShot : AnalyzeStep(AnnotationSucceeds(r, shot))
  \/ \E r \in 1..MaxRequests : AnalyzeStep(AnnotationFails(r))
  \/ \E r \in 1..MaxRequests, dbUp \in BOOLEAN : AnalyzeStep(SaveSettles(r, dbUp))
  \/ AnalyzeStep(AnalyzeNewDay)
  \/ \E endpoint \in ReadEndpoints : ReadStep(ReadRequested(endpoint))
  \/ \E err \in QueryErrors : ReadStep(QueryRejects(err))
  \/ \E readable \in BOOLEAN : ReadStep(QueryResolves(readable))

SpecServe == InitServing /\ [][NextServe]_vars

\* a chart endpoint answers in this step, its query having resolved
ChartAnswered ==
  /\ http.pc = "querying" /\ http'.pc = "done"
  /\ http.endpoint \in ChartEndpoints
  /\ http'.status \in {200, 404}

\* a POST /analyze answered 200 for day d, its annotation written
AnalyzedWithAnnotation(d) ==
  \E r \in 1..MaxRequests : reqs[r].status = 200 /\ reqs[r].annotated /\ reqs[r].date = d

\* the step serves the file of day d
Serves(d) ==
  /\ http'.status = 200
  /\ http'.served = [date |-> d, file |-> ChartFile(http.endpoint),
                     bytes |-> FileAt(d, ChartFile(http.endpoint))]

\* the step serves the chart of the latest record's day, or answers 404 when
\* there is no record or no such file
ServedFromLatest ==
  LET record == getLatestAnalysis IN
  IF record = Null THEN http'.status = 404
  ELSE IF FileAt(record.asof_date, ChartFile(http.endpoint)) = 0 THEN http'.status = 404
  ELSE Serves(record.asof_date)

\* C28 (as claimed): a chart endpoint serves the file under the partition of
\* the latest stored record's asof_date, and answers 404 when there is no
\* record or no such file; after a POST /analyze answered 200 for day D with
\* its annotation written, and no record dated later, it serves D's file.
C28_ChartOfLatestRecord ==
  [][ChartAnswered =>
       /\ ServedFromLatest
       /\ \A d \in Days :
            (AnalyzedWithAnnotation(d) /\ \A q \in store : q.asof_date <= d)
              => Serves(d)]_vars

\* What holds of the chart endpoints: at or west of UTC they serve the file of
\* the latest record's day.
ChartOfLatestRecordWestOfUTC ==
  [][(ChartAnswered /\ zone <= 0) => ServedFromLatest]_vars

(***************************************************************************)
(* SpecCleanup: one pass of cleanupOldDirs over a data directory, the      *)
(* clock running.                                                          *)
(***************************************************************************)
InitCleaning ==
  /\ InitServer
  /\ dirs \in {S \in SUBSET Entries : \A e, f \in S : e.name = f.name => e = f}
  /\ cleanup = NoPass
  /\ InitCapture /\ InitServe
  /\ InitStore /\ InitReqs /\ InitAnalyze /\ InitRetry /\ InitNorm /\ InitMap

CleanupStep(A) == A /\ UNCHANGED <<coreVars, captureVars, serveVars>>

NextCleanup ==
  \/ CleanupStep(CleanupCalled)
  \/ \E rmOk \in BOOLEAN : CleanupStep(CleanupVisit(rmOk))
  \/ CleanupStep(CleanupReturns)
  \/ JobStep(Tick)
  \/ JobStep(NewDay)

SpecCleanup == InitCleaning /\ [][NextCleanup]_vars

\* the day is more than RetentionDays days before the current instant
OlderThanRetention(day) ==
  \/ today - day > RetentionDays
  \/ today - day = RetentionDays /\ now > 0

\* the loop visits a directory in this step
Visits(name) ==
  /\ cleanup.pc = "looping"
  /\ cleanup'.i = cleanup.i + 1
  /\ name = cleanup.dateDirs[cleanup.i]

\* the names of the directories there are
DirNames(entries) == {e.name : e \in {x \in entries : x.isDirectory}}

\* the pass is over and returned the number of directories it removed
CountsRemovals ==
  cleanup.pc = "done" =>
    /\ cleanup.result = Num(Cardinality(cleanup.removed))
    /\ cleanup.removed \cap DirNames(dirs) = {}
    /\ cleanup.removed \cap cleanup.failed = {}

\* C29 (as claimed): a pass removes exactly the date-named partitions older
\* than retentionDays, never one within the retention and never a directory
\* whose name is not a date, goes on when a removal fails, and returns the
\* number of partitions it removed.
C29_RemovesOldDatePartitions ==
  /\ [][\A e \in dirs :
          e \notin dirs' =>
            /\ e.isDirectory
            /\ e.name.form = "date"
            /\ OlderThanRetention(e.name.day)
            /\ Visits(e.name)]_vars
  /\ [][\A name \in DirNames(dirs) :
          (Visits(name) /\ name.form = "date" /\ OlderThanRetention(name.day)
             /\ name \notin cleanup'.failed)
            => name \notin DirNames(dirs')]_vars
  /\ [](CountsRemovals)

\* C29 (amended): a pass removes exactly the directories named in the form
\* YYYY-MM-DD whose date, as parseDate reads the name, is more than
\* retentionDays days before the current instant; a name of that form that is
\* no calendar date is read as the date it rolls over to.  It never removes a
\* directory within the retention, a directory of another name or a plain
\* file, goes on when a removal fails, and returns the number it removed.
C29_RemovesOldDateFormDirs ==
  /\ [][\A e \in dirs :
          e \notin dirs' =>
            /\ e.isDirectory
            /\ e.name.form \in {"date", "rolled"}
            /\ OlderThanRetention(e.name.day)
            /\ Visits(e.name)
            /\ dirs' = dirs \ {e}]_vars
  /\ [][\A name \in DirNames(dirs) :
          (Visits(name) /\ name.form \in {"date", "rolled"}
             /\ OlderThanRetention(name.day) /\ name \notin cleanup'.failed)
            => (name \notin DirNames(dirs') /\ name \in cleanup'.removed)]_vars
  /\ [][(cleanup.pc = "looping" /\ cleanup'.failed # cleanup.failed)
          => (cleanup'.pc = "looping" /\ cleanup'.i = cleanup.i + 1
              /\ cleanup'.removedCount = cleanup.removedCount /\ dirs' = dirs)]_vars
  /\ [](CountsRemovals)

\* a pass that is over: one removal failed, a later one succeeded, a
\* directory within the retention and one of another name are still there
C29_Witness ==
  /\ cleanup.pc = "done"
  /\ cleanup.result = Num(1)
  /\ cleanup.failed = {DateName(1)}
  /\ cleanup.removed = {DateName(0)}
  /\ DateName(2) \in DirNames(dirs)
  /\ OtherName \in DirNames(dirs)

(***************************************************************************)
(* SpecService: the server of index.js kept running: triggers and status   *)
(* requests keep coming, every capture settles, the clock and the calendar *)
(* advance.                                                                *)
(***************************************************************************)
SpecService ==
  /\ InitJob /\ [][NextJob]_vars
  /\ WF_vars(BackgroundSettles)
  /\ WF_vars(JobStep(PostDownload))
  /\ WF_vars(JobStep(GetDownloadStatus))
  /\ WF_vars(JobStep(Tick))
  /\ WF_vars(JobStep(NewDay))

\* the data directory has a partition for day d
DirExists(d) == files[d].original # 0 \/ files[d].annotated # 0

\* C30 (as claimed): while the service keeps running, every date directory
\* older than the retention is eventually removed by the service itself.
C30_OldDirsEventuallyRemoved ==
  \A d \in Days :
    (DirExists(d) /\ isOlderThan(DateName(d), RetentionDays)) ~> ~DirExists(d)

(***************************************************************************)
(* SpecAnnotate: one call of annotateChart, with or without its input, an  *)
(* annotated chart of an earlier call on disk or not.                      *)
(***************************************************************************)
InitAnnotating ==
  /\ ann \in {[NotAnnotating EXCEPT !.out = o] : o \in {Null, Buffer(<<66>>)}}
  /\ cap = NotStarted
  /\ InitServe /\ InitCleanup
  /\ InitServer /\ InitStore /\ InitReqs /\ InitAnalyze /\ InitRetry /\ InitNorm /\ InitMap

AnnotateStep(A) == A /\ UNCHANGED <<coreVars, cap, serveVars, cleanupVars>>

NextAnnotate ==
  \/ \E inputExists \in BOOLEAN : AnnotateStep(AnnotateCalled(inputExists))
  \/ \E parts \in PartLists : AnnotateStep(GenerateContentResolves(parts))
  \/ AnnotateStep(GenerateContentRejects)

SpecAnnotate == InitAnnotating /\ [][NextAnnotate]_vars

\* the indexes of the parts that hold an image, and of those that hold text
ImageIndexes(ps) == {i \in 1..Len(ps) : IsImagePart(ps[i])}

TextIndexes(ps) == {i \in 1..Len(ps) : IsTextPart(ps[i])}

\* the bytes of the first part that holds an image
FirstImageBytes(ps) ==
  LET first == CHOOSE i \in ImageIndexes(ps) : \A j \in ImageIndexes(ps) : i <= j
  IN FromBase64(ps[first].inlineData.v.data.v)

\* the response received holds an image
ImageReturned == ann.parts \notin {Null, Undefined} /\ ImageIndexes(ann.parts.v) # {}

\* C31: annotateChart throws when the input file is missing, before any
\* remote call; when the response holds no image part; and when it holds text
\* and no image.  In these cases nothing is written to the output path.  When
\* it returns, the bytes of the first image part are at the output path and
\* the output path is what it returns.
C31_AnnotateWritesFirstImageOrFails ==
  /\ [](/\ (ann.pc # "idle" /\ ~ann.inputExists)
             => (ann.pc = "thrown" /\ ann.calls = 0 /\ ann.writes = 0
                 /\ ann.result.error = "Input chart not found")
        /\ (ann.parts # Null /\ ~ImageReturned)
             => (ann.pc = "thrown" /\ ann.writes = 0)
        /\ (ann.parts \notin {Null, Undefined} /\ ~ImageReturned /\ TextIndexes(ann.parts.v) # {})
             => ann.result.error = "Model returned text instead of image"
        /\ ann.pc = "thrown" => ann.writes = 0
        /\ ann.pc = "returned"
             => /\ ImageReturned
                /\ ann.writes = 1
                /\ ann.out = FirstImageBytes(ann.parts.v)
                /\ ann.result = [kind |-> "returns", path |-> OutputPath])
  /\ [][ann'.out # ann.out => (ann'.pc = "returned" /\ ann'.writes = ann.writes + 1)]_vars

\* two images after a text part: the first image's byte is written over the
\* chart of an earlier call, and the path returned
C31_Witness ==
  /\ ann.pc = "returned"
  /\ ann.parts = Arr(<<TextPart("I cannot edit this image"),
                       InlinePart(<<"Q", "Q", "=", "=">>),
                       InlinePart(<<"Q", "U", "I", "=">>)>>)
  /\ ann.out = Buffer(<<65>>)
  /\ ann.result.path = OutputPath

====
